---- MODULE Spec2Model ----
(***************************************************************************)
(* Stage-2 enrichment workers of the reddit funnel                         *)
(* (tools/reddit_funnel/python/stage2_sharded.py, stage2_batched.py):      *)
(* the modulo partition of the input log, the resume tracker reading the   *)
(* worker's shard, the batch classifier client with strict validation and  *)
(* split-on-failure, the taxonomy normalizer, and the append-only shard.   *)
(***************************************************************************)
EXTENDS Integers, Sequences, FiniteSets, TLC

\* ------------------------------------------------------------- bounds
\* Number of lines of the input log.
MaxLines == 3
\* Largest --total-workers tried (W ranges over 1..MaxWorkers).
MaxWorkers == 2
\* Largest batch handed to process_batch_with_retry on its own.
MaxBatch == 4
\* Worker runs started in one behaviour (first runs and restarts together).
MaxStarts == 2
\* Writes a shard file can take (the size of the disk).
MaxShard == 3
\* --batch-size used by the workers of the model.
BatchSize == 2
\* --max-retries: validation attempts per (sub-)batch.
MaxRetries == 2

\* Lines in the shards of all workers together.
MaxRecords == 3
\* Labels of the host of a url.
MaxLabels == 3
\* Phrases of a text handed to the atom extraction.
MaxPhrases == 5
\* Largest limit handed to extract_atoms.
MaxAtoms == 4
\* Largest max_retries handed to call_gemini_batch.
MaxCallRetries == 3
\* Lines of the clustered file the aggregator reads.
MaxStream == 4
MaxSampleStream == 12
MaxClusters == 3
\* Largest 1/rps, and the longest a classifier call takes, in ticks of the clock.
MaxInterval == 3
MaxLatency == 2
\* Batches of the main loop of a paced worker.
MaxPaced == 2

\* ------------------------------------------------------------- values
\* A log of MaxLines lines carries at most MaxLines distinct ids.
NumIds == MaxLines
Ids == 1..NumIds
\* item.get("id") / r.get("id") when the field is absent.
NoId == 0
\* An id the classifier may invent, matching no input item.
ForeignId == MaxLines + MaxBatch + 1

Workers == 1..MaxWorkers

Min(a, b) == IF a < b THEN a ELSE b

Range(s) == {s[k] : k \in 1..Len(s)}

\* ------------------------------------------------------------- input log
BlankLine == [kind |-> "blank", id |-> NoId]
\* A line json.loads rejects (or that is no JSON object).
BadLine == [kind |-> "bad", id |-> NoId]
Item(i) == [kind |-> "item", id |-> i]

LineValues == {BlankLine, BadLine} \cup {Item(i) : i \in Ids \cup {NoId}}

\* Ids are named in order of first appearance: logs that differ only in the
\* names of their ids behave alike.
FirstAppearanceOrder(lg) ==
    \A k \in 1..Len(lg) :
        lg[k].id # NoId =>
            \A j \in 1..(lg[k].id - 1) : \E m \in 1..(k - 1) : lg[m].id = j

Logs == {lg \in [1..MaxLines -> LineValues] : FirstAppearanceOrder(lg)}

\* "item ids are unique": no id on two lines of the log.
UniqueIds(lg) ==
    \A k, m \in 1..Len(lg) :
        (k # m /\ lg[k].id # NoId) => lg[k].id # lg[m].id

\* The id of the item at (0-based) line line_num of lg.
ItemId(lg, line_num) == lg[line_num + 1].id

\* Partition scan of main(): enumerate(f) counts every line, a blank line is
\* skipped before the modulo test, a line that does not parse is skipped after
\* it, and an item whose id is in existing_ids is left out.  The result is
\* the list all_items, here as 0-based line numbers.
\* Mutant: the line counter advances on non-blank lines only.
RECURSIVE ScanInputNonBlank(_, _, _, _, _)
ScanInputNonBlank(lines, line_num, tw, wid, existing) ==
    IF lines = <<>> THEN <<>>
    ELSE LET line == Head(lines)
         IN  IF line.kind = "blank"
             THEN ScanInputNonBlank(Tail(lines), line_num, tw, wid, existing)
             ELSE LET rest == ScanInputNonBlank(Tail(lines), line_num + 1, tw, wid,
                                                existing)
                  IN  IF line_num % tw # (wid - 1) THEN rest
                      ELSE IF line.kind = "bad" THEN rest
                      ELSE IF line.id \notin existing THEN <<line_num>> \o rest
                      ELSE rest

\* Mutant: the line counter advances on the lines that parse only.
RECURSIVE ScanInputParsed(_, _, _, _, _)
ScanInputParsed(lines, line_num, tw, wid, existing) ==
    IF lines = <<>> THEN <<>>
    ELSE LET line == Head(lines)
         IN  IF line.kind = "bad"
             THEN ScanInputParsed(Tail(lines), line_num, tw, wid, existing)
             ELSE LET rest == ScanInputParsed(Tail(lines), line_num + 1, tw, wid,
                                              existing)
                  IN  IF line.kind = "blank" THEN rest
                      ELSE IF line_num % tw # (wid - 1) THEN rest
                      ELSE IF line.id \notin existing THEN <<line_num>> \o rest
                      ELSE rest

RECURSIVE ScanInput(_, _, _, _, _)
ScanInput(lines, line_num, tw, wid, existing) ==
    IF lines = <<>> THEN <<>>
    ELSE LET line == Head(lines)
             rest == ScanInput(Tail(lines), line_num + 1, tw, wid, existing)
         IN  IF line.kind = "blank" THEN rest
             ELSE IF line_num % tw # (wid - 1) THEN rest
             ELSE IF line.kind = "bad" THEN rest
             ELSE IF line.id \notin existing THEN <<line_num>> \o rest
             ELSE rest

\* Mutant: the scan forgets the ids already in the shard.
load_partition_no_skip(lg, tw, wid, existing) == ScanInput(lg, 0, tw, wid, {})

\* Mutant: the scan takes the lines of every partition.
load_partition_of_all(lg, tw, wid, existing) == ScanInput(lg, 0, 1, 1, existing)

load_partition(lg, tw, wid, existing) == ScanInput(lg, 0, tw, wid, existing)

\* ------------------------------------------------------------- shard file
\* The shard is a byte stream; the model keeps it as the list of the writes
\* that reached the disk.  A chunk is one record's json.dumps text: whole or
\* cut short (full), with or without its trailing newline (nl).
Chunk(i, f, n) == [id |-> i, full |-> f, nl |-> n]

\* Chunk k is a line of its own that json.loads accepts: it is whole, the
\* chunk before it ended its line, and it is either newline-ended or the last
\* text of the file.
ParseableAt(sh, k) ==
    /\ sh[k].full
    /\ (k = 1 \/ sh[k - 1].nl)
    /\ (sh[k].nl \/ k = Len(sh))

ParseableIds(sh) == {sh[k].id : k \in {j \in 1..Len(sh) : ParseableAt(sh, j)}}

\* Mutant: the shard is not read.
load_existing_ids_none(sh) == {}

\* The last line of the shard is not read.
load_existing_ids_but_last(sh) ==
    {sh[k].id : k \in {j \in 1..(Len(sh) - 1) : ParseableAt(sh, j)}}

\* load_existing_ids_from_shard: the ids of the lines that parse and hold an
\* "id"; lines that do not parse are passed over.
\* Mutant: the id of a record is taken from a line that does not parse, too.
load_existing_ids_of_any_line(sh) == {sh[k].id : k \in 1..Len(sh)}

load_existing_ids_from_shard(sh) == ParseableIds(sh)

\* ------------------------------------------------------------- classifier responses
\* What call_gemini_batch hands back: None, or a dict that has a "results"
\* key (a bare array and a dict without "results" are wrapped).  shape is the
\* JSON type of the "results" value; elems are its members when it can be
\* iterated (the characters of a string and the keys of an object are
\* non-dict members).
Junk == [kind |-> "junk", id |-> NoId, fields |-> "str"]
\* A result object; id = NoId when it has no "id"; fields = "nonstr" when
\* its issue_type or severity is a JSON value that is no string and not null.
Obj(i, f) == [kind |-> "obj", id |-> i, fields |-> f]

NoResponse == [shape |-> "none", elems |-> <<>>]
NullResults == [shape |-> "null", elems |-> <<>>]
NumberResults == [shape |-> "number", elems |-> <<>>]
StringResults(n) ==
    [shape |-> "string", elems |-> SubSeq([k \in 1..n |-> Junk], 1, n)]
ArrayResults(es) == [shape |-> "array", elems |-> es]

\* The answer the prompt asks for: one well-formed result per submitted id.
Ideal(ids) == SubSeq([k \in 1..Len(ids) |-> Obj(ids[k], "str")], 1, Len(ids))

ElemsFor(ids) ==
    {Junk, Obj(NoId, "str")}
        \cup {Obj(i, f) : i \in Range(ids) \cup {ForeignId}, f \in {"str", "nonstr"}}

Orders(n) == {p \in [1..n -> 1..n] : \A a, b \in 1..n : a # b => p[a] # p[b]}

RemoveAt(s, k) == SubSeq(s, 1, k - 1) \o SubSeq(s, k + 1, Len(s))

ReplaceAt(s, k, e) == SubSeq(s, 1, k - 1) \o <<e>> \o SubSeq(s, k + 1, Len(s))

\* s in the order p.
Reorder(s, p) == SubSeq([k \in 1..Len(s) |-> s[p[k]]], 1, Len(s))

\* The responses tried for a request covering ids: every order of the ideal
\* answer, the ideal answer with one member replaced, dropped or added, and
\* the shapes that are no array.
Responses(ids) ==
    LET n == Len(ids)
        ideal == Ideal(ids)
    IN  {NoResponse, NullResults, NumberResults, StringResults(n)}
          \cup {ArrayResults(Reorder(ideal, p)) : p \in Orders(n)}
          \cup {ArrayResults(ReplaceAt(ideal, k, e)) : k \in 1..n, e \in ElemsFor(ids)}
          \cup {ArrayResults(RemoveAt(ideal, k)) : k \in 1..n}
          \cup {ArrayResults(Append(ideal, e)) : e \in ElemsFor(ids)}

\* ------------------------------------------------------------- validation
\* len(results) raises TypeError for null and for a number.
HasLen(resp) == resp.shape \in {"string", "object", "array"}

\* result_ids of the sharded worker: r.get("id") of the members that are
\* dicts, the others passed over.
DictIds(es) == {es[k].id : k \in {j \in 1..Len(es) : es[j].kind = "obj"}}

\* The sharded validation without the comparison of the lengths.
validate_batch_response_sharded_no_count(resp, input_ids) ==
    IF resp.shape = "none" THEN "fail"
    ELSE IF ~HasLen(resp) THEN "raise"
    ELSE IF DictIds(resp.elems) # Range(input_ids) THEN "fail"
    ELSE "ok"

\* stage2_sharded.validate_batch_response: "ok", "fail" (False, reason) or
\* "raise" (an exception leaves the function).
validate_batch_response_sharded(resp, input_ids) ==
    IF resp.shape = "none" THEN "fail"
    ELSE IF ~HasLen(resp) THEN "raise"
    ELSE IF Len(resp.elems) # Len(input_ids) THEN "fail"
    ELSE IF DictIds(resp.elems) # Range(input_ids) THEN "fail"
    ELSE "ok"

\* The loop of stage2_batched.validate_batch_response over the results: the
\* first member that is no dict or has no "id" ends it with failure.
RECURSIVE CollectIds(_, _)
CollectIds(es, acc) ==
    IF es = <<>> THEN [ok |-> TRUE, ids |-> acc]
    ELSE IF Head(es).kind # "obj" THEN [ok |-> FALSE, ids |-> acc]
    ELSE IF Head(es).id = NoId THEN [ok |-> FALSE, ids |-> acc]
    ELSE CollectIds(Tail(es), acc \cup {Head(es).id})

\* The same without the comparison of the id sets.
validate_batch_response_batched_count_only(resp, input_ids) ==
    IF resp.shape = "none" THEN "fail"
    ELSE IF resp.shape # "array" THEN "fail"
    ELSE IF Len(resp.elems) # Len(input_ids) THEN "fail"
    ELSE IF ~CollectIds(resp.elems, {}).ok THEN "fail"
    ELSE "ok"

\* stage2_batched.validate_batch_response.
validate_batch_response_batched(resp, input_ids) ==
    IF resp.shape = "none" THEN "fail"
    ELSE IF resp.shape # "array" THEN "fail"
    ELSE IF Len(resp.elems) # Len(input_ids) THEN "fail"
    ELSE LET c == CollectIds(resp.elems, {})
         IN  IF ~c.ok THEN "fail"
             ELSE IF c.ids # Range(input_ids) THEN "fail"
             ELSE "ok"

validate_batch_response(scr, resp, input_ids) ==
    IF scr = "sharded" THEN validate_batch_response_sharded(resp, input_ids)
    ELSE validate_batch_response_batched(resp, input_ids)

\* normalize_result(r) raises when r is no dict (r.get) or when a field it
\* lowercases is no string (raw.lower()).
NormalizeRaises(e) == e.kind # "obj" \/ e.fields = "nonstr"

\* ------------------------------------------------------------- batch client, summarised
\* What one call of process_batch_with_retry can end in: a list of results
\* (here their ids, in the order of the accepted response) or an exception.
Returned(rs) == [kind |-> "returned", results |-> rs]
Raised == [kind |-> "raised", results |-> <<>>]
\* The attempt ended nothing: the retry loop goes on.
NextAttempt == [kind |-> "next", results |-> <<>>]

ElemIds(es) == SubSeq([k \in 1..Len(es) |-> es[k].id], 1, Len(es))

\* One attempt of the retry loop on a request covering ids, for response
\* resp: NextAttempt (falsy or rejected response), or the outcome that ends
\* the call.
attempt(scr, resp, ids) ==
    IF resp.shape = "none" THEN NextAttempt
    ELSE LET v == validate_batch_response(scr, resp, ids)
         IN  IF v = "raise" THEN Raised
             ELSE IF v = "fail" THEN NextAttempt
             ELSE IF \E k \in 1..Len(resp.elems) : NormalizeRaises(resp.elems[k])
                  THEN Raised
             ELSE Returned(ElemIds(resp.elems))

\* items[:1]: the left call takes the first item only.
LeftHalfFirst(s) == SubSeq(s, 1, 1)
\* items[:mid] and items[mid:] with mid = len(items) // 2.
LeftHalf(s) == SubSeq(s, 1, Len(s) \div 2)
\* items[mid + 1:], one item lost.
RightHalfShort(s) == SubSeq(s, (Len(s) \div 2) + 2, Len(s))
RightHalf(s) == SubSeq(s, (Len(s) \div 2) + 1, Len(s))

\* Every outcome of process_batch_with_retry(items) over the classifier's
\* answers: some attempt ends the call, or all max_retries attempts go by
\* and the batch is split (a single item is dropped).
RECURSIVE process_batch_with_retry(_, _, _)
process_batch_with_retry(scr, ids, retries) ==
    IF ids = <<>> THEN {Returned(<<>>)}
    ELSE LET ended == IF retries = 0 THEN {}
                      ELSE {attempt(scr, r, ids) : r \in Responses(ids)} \ {NextAttempt}
             split ==
                 IF Len(ids) > 1
                 THEN LET ls == process_batch_with_retry(scr, LeftHalf(ids), retries)
                          rs == process_batch_with_retry(scr, RightHalf(ids), retries)
                      IN  {IF l.kind = "raised" \/ r.kind = "raised" THEN Raised
                           ELSE Returned(l.results \o r.results) : l \in ls, r \in rs}
                 ELSE {Returned(<<>>)}
         IN  ended \cup split

\* ------------------------------------------------------------- texts and issue atoms
\* A text is its phrases, written with single blanks between them, either as
\* they stand in the tables (lower case) or in capitals.
TextOf(phrases, caps) == [phrases |-> phrases, caps |-> caps]

\* The empty string.
NoText == TextOf(<<>>, FALSE)

\* str.lower()
LowerText(text) == [text EXCEPT !.caps = FALSE]

RECURSIVE CharSum(_, _)
CharSum(phrases, n) ==
    IF n = 0 THEN 0 ELSE Len(phrases[n]) + CharSum(phrases, n - 1)

\* len(text.strip()): the characters of the phrases and the blanks between them.
CharLen(text) ==
    IF text.phrases = <<>> THEN 0
    ELSE CharSum(text.phrases, Len(text.phrases)) + Len(text.phrases) - 1

\* The pairs <<shorter, longer>> of triggers of the model of which the first
\* is a substring of the second.
Inside == {<<"down", "taken down">>}

\* trigger in text_lower, a plain substring test: the triggers of the model
\* are phrases, and a trigger occurs in a text where it is a phrase of the
\* text or lies inside one.
Contains(text, trigger) ==
    /\ ~text.caps
    /\ \E k \in 1..Len(text.phrases) :
          text.phrases[k] = trigger \/ <<trigger, text.phrases[k]>> \in Inside

Pair(trigger, atom) == [trigger |-> trigger, atom |-> atom]

\* ATOM_LOOKUP.items(), in the order the table inserts them: the triggers of
\* ISSUE_ATOMS the model writes texts with (both scripts list all of them).
ATOM_LOOKUP ==
    << Pair("forgot password", "password"),
       Pair("verification", "verify"),
       Pair("not syncing", "sync"),
       Pair("cancel subscription", "subscription"),
       Pair("taken down", "moderation"),
       Pair("app", "app"),
       Pair("down", "server") >>

Triggers == {ATOM_LOOKUP[k].trigger : k \in 1..Len(ATOM_LOOKUP)}

\* The atoms of the model in ascending alphabetical order (the order sorted()
\* gives to strings).
AtomOrder ==
    <<"app", "moderation", "password", "server", "subscription", "sync", "verify">>

\* sorted(matched)
SortedAtoms(matched) == SelectSeq(AtomOrder, LAMBDA a : a \in matched)

\* Entry e put into a sequence sorted by descending trigger length, behind
\* every entry at least as long (sorted() is stable).
InsertByLen(e, sorted) ==
    LET ahead == Cardinality({k \in 1..Len(sorted) :
                     Len(sorted[k].trigger) >= Len(e.trigger)})
    IN SubSeq(sorted, 1, ahead) \o <<e>> \o SubSeq(sorted, ahead + 1, Len(sorted))

RECURSIVE SortByLen(_, _)
\* sorted(ATOM_LOOKUP.items(), key=lambda x: -len(x[0])), first n entries.
SortByLen(entries, n) ==
    IF n = 0 THEN <<>> ELSE InsertByLen(entries[n], SortByLen(entries, n - 1))

SortedTriggers == SortByLen(ATOM_LOOKUP, Len(ATOM_LOOKUP))

RECURSIVE ScanTriggers(_, _, _, _)
\* The loop over the sorted triggers from entry k on: a hit adds its atom, and
\* a hit that brings the set to the limit ends the loop.
ScanTriggers(text, k, matched, limit) ==
    IF k > Len(SortedTriggers) THEN matched
    ELSE LET hit == Contains(text, SortedTriggers[k].trigger)
             now == IF hit THEN matched \cup {SortedTriggers[k].atom} ELSE matched
         IN IF hit /\ Cardinality(now) >= limit THEN now
            ELSE ScanTriggers(text, k + 1, now, limit)

Take(seq, n) == SubSeq(seq, 1, IF Len(seq) < n THEN Len(seq) ELSE n)

\* stage2_postprocess_v2.extract_atoms(text, max_atoms)
extract_atoms(text, max_atoms) ==
    IF text.phrases = <<>> THEN <<>>
    ELSE Take(SortedAtoms(ScanTriggers(LowerText(text), 1, {}, max_atoms * 2)),
              max_atoms)

\* The scan of stage2_final.extract_issue_atoms ends at this many atoms.
FinalAtomLimit == 5

\* stage2_final.extract_issue_atoms(text)
extract_issue_atoms(text) ==
    IF text.phrases = <<>> THEN <<>>
    ELSE SortedAtoms(ScanTriggers(LowerText(text), 1, {}, FinalAtomLimit))

RECURSIVE Join(_, _, _)
\* sep.join(words[1..n])
Join(words, n, sep) ==
    IF n = 0 THEN ""
    ELSE IF n = 1 THEN words[1]
    ELSE Join(words, n - 1, sep) \o sep \o words[n]

\* The bucket made of the first atom alone.
atoms_bucket_first(text, max_atoms) ==
    LET atoms == extract_atoms(text, max_atoms)
    IN IF atoms = <<>> THEN "generic" ELSE atoms[1]

\* stage2_postprocess_v2.atoms_bucket(text, max_atoms)
atoms_bucket(text, max_atoms) ==
    LET atoms == extract_atoms(text, max_atoms)
    IN IF atoms = <<>> THEN "generic" ELSE Join(atoms, Len(atoms), "_")

\* ------------------------------------------------------------- workers
VARIABLES
    log,            \* the input log: the same for every worker, never written
    total_workers,  \* --total-workers (W)
    script,         \* "sharded" (stage2_sharded.py) or "batched" (stage2_batched.py)
    skip_existing,  \* --skip-existing of stage2_batched; the sharded worker always skips
    pc,             \* per worker: "idle", "running", "done", "aborted", "stopped"
    existing_ids,   \* per worker: the ids read from its shard at startup
    all_items,      \* per worker: the line numbers of the items left to process
    pos,            \* per worker: the loop index i of the batch loop
    shard,          \* per worker: its shard file
    starts,         \* runs started so far
    start_len,      \* per worker: length of its shard when the run started
    prev_full,      \* per worker: the run before this one completed with every
                    \* item of the partition in the shard
    submitted       \* per worker: line numbers submitted to the classifier in this run

wvars == <<log, total_workers, script, skip_existing, pc, existing_ids, all_items,
           pos, shard, starts, start_len, prev_full, submitted>>

\* One call of the batch client, taken alone.
VARIABLES
    b_script,   \* which worker's validate_batch_response is in use
    b_ids,      \* the batch: b_ids[k] is the id of its k-th item
    b_poison,   \* 0, or the position of the item every request containing which fails
    b_stack,    \* the frames of process_batch_with_retry, innermost last
    b_out,      \* Running, or how the outermost call ended
    b_last      \* the items of the last request and what became of its response

bvars == <<b_script, b_ids, b_poison, b_stack, b_out, b_last>>

NoRequest == [items |-> <<>>, verdict |-> "none"]

Running == [kind |-> "running", results |-> <<>>]

\* validate_batch_response, taken alone.
VARIABLES
    v_script,   \* which worker's validate_batch_response
    v_ids,      \* input_ids
    v_resp,     \* response
    v_verdict   \* "unset", then what the function did: "ok", "fail", "raise"

vvars == <<v_script, v_ids, v_resp, v_verdict>>

\* normalize_result, taken alone.
VARIABLES
    n_result,   \* the classifier's result: its raw issue_type and severity
    n_out       \* NotCalled, then what normalize_result did

nvars == <<n_result, n_out>>

NotCalled ==
    [raised |-> FALSE, issue_type |-> "not called", severity |-> "not called",
     raw_issue_type |-> <<>>]

VARIABLES
    c_script,        \* "v2" (stage2_postprocess_v2) or "final" (stage2_final)
    c_items,         \* the two enriched items of the input, in input order
    c_out            \* the clustering fields of the items processed so far

cvars == <<c_script, c_items, c_out>>

VARIABLES
    g_script,        \* "v2" or "final"
    g_item,          \* the item handed to get_brand_effective
    g_out            \* brand_effective once it is computed

gvars == <<g_script, g_item, g_out>>

VARIABLES
    a_fn,            \* "extract_atoms" (v2) or "extract_issue_atoms" (final)
    a_text,          \* the source text
    a_k,             \* max_atoms
    a_out            \* the atoms returned

avars == <<a_fn, a_text, a_k, a_out>>

VARIABLES
    s_lines,         \* the lines of all shards, in the order they were written
    s_owner,         \* the worker whose shard holds each line
    s_done,          \* shard files the clustering pass has read
    s_out,           \* the clustered records written so far
    s_agg            \* the statistics of the aggregator

svars == <<s_lines, s_owner, s_done, s_out, s_agg>>

VARIABLES
    p_script,        \* "sharded" or "batched"
    p_ids,           \* the ids of the request
    p_parsed,        \* the classifier's answer as json.loads returns it
    p_out            \* how the turn of the retry loop on that answer ended

pvars == <<p_script, p_ids, p_parsed, p_out>>

\* One invocation of call_gemini_batch.
VARIABLES
    k_script,        \* "sharded" or "batched"
    k_max,           \* max_retries
    k_attempt,       \* the loop variable: turns of the loop begun
    k_log,           \* per request made: the response and the sleep that followed
    k_out            \* "running", then "result" (a dict returned) or "none"

kvars == <<k_script, k_max, k_attempt, k_log, k_out>>

\* The aggregator (stage3_cluster_v2.process, stage3_final.process), line by
\* line.
VARIABLES
    t_script,        \* "v2" or "final"
    t_lines,         \* the lines of the clustered file
    t_read,          \* lines the loop has read
    t_clusters,      \* coarse_data / clusters: cluster id -> its statistics
    t_report,        \* what is computed after the loop, once it is (done)
    t_max,           \* --max-items (0: not given)
    t_total,         \* total: the items parsed so far
    t_brands         \* brand_stats / brands: brand -> its statistics

tvars == <<t_script, t_lines, t_read, t_clusters, t_report, t_max, t_total, t_brands>>

\* The cluster-size statistics the aggregator computes after its loop.
VARIABLES
    h_sizes,         \* sizes: the member count of every cluster
    h_out            \* the statistics, once they are computed (done)

hvars == <<h_sizes, h_out>>

\* The clock of one worker around its classifier calls.
VARIABLES
    q_min_interval,  \* min_interval: 1 / rps, or 0
    q_batches,       \* turns of the main loop still to come
    q_stack,         \* the calls of process_batch_with_retry under way: size, attempt
    q_elapsed,       \* time.time() - last_request
    q_since_call,    \* time since the latest classifier call started (-1: no call yet)
    q_gap            \* time between the starts of the latest two calls (-1: fewer than two)

qvars == <<q_min_interval, q_batches, q_stack, q_elapsed, q_since_call, q_gap>>

vars == <<wvars, bvars, vvars, nvars, cvars, gvars, avars, svars, pvars, kvars, tvars, hvars, qvars>>

\* The variables of every part but the one that runs, at their values at rest.
AtRest(part) ==
    /\ IF part = "workers" THEN TRUE
       ELSE /\ log = <<>> /\ total_workers = 1 /\ script = "sharded"
            /\ skip_existing = TRUE /\ pc = <<>> /\ existing_ids = <<>>
            /\ all_items = <<>> /\ pos = <<>> /\ shard = <<>> /\ starts = 0
            /\ start_len = <<>> /\ prev_full = <<>> /\ submitted = <<>>
    /\ IF part = "batch" THEN TRUE
       ELSE /\ b_script = "sharded" /\ b_ids = <<>> /\ b_poison = 0
            /\ b_stack = <<>> /\ b_out = Running /\ b_last = NoRequest
    /\ IF part = "validate" THEN TRUE
       ELSE /\ v_script = "sharded" /\ v_ids = <<>> /\ v_resp = NoResponse
            /\ v_verdict = "unset"
    /\ IF part = "normalize" THEN TRUE
       ELSE n_result = <<>> /\ n_out = NotCalled
    /\ IF part = "cluster" THEN TRUE
       ELSE c_script = "v2" /\ c_items = <<>> /\ c_out = <<>>
    /\ IF part = "brand" THEN TRUE
       ELSE g_script = "v2" /\ g_item = <<>> /\ g_out = <<>>
    /\ IF part = "atoms" THEN TRUE
       ELSE a_fn = "extract_atoms" /\ a_text = <<>> /\ a_k = 0 /\ a_out = <<>>
    /\ IF part = "stage3" THEN TRUE
       ELSE /\ s_lines = <<>> /\ s_owner = <<>> /\ s_done = 0 /\ s_out = <<>>
            /\ s_agg = <<>>
    /\ IF part = "parse" THEN TRUE
       ELSE /\ p_script = "sharded" /\ p_ids = <<>> /\ p_parsed = NoResponse
            /\ p_out = "unset"
    /\ IF part = "call" THEN TRUE
       ELSE /\ k_script = "sharded" /\ k_max = 0 /\ k_attempt = 0
            /\ k_log = <<>> /\ k_out = "running"
    /\ IF part = "aggregate" THEN TRUE
       ELSE /\ t_script = "v2" /\ t_lines = <<>> /\ t_read = 0
            /\ t_clusters = <<>> /\ t_report = <<>> /\ t_max = 0 /\ t_total = 0
            /\ t_brands = <<>>
    /\ IF part = "sizes" THEN TRUE
       ELSE h_sizes = <<>> /\ h_out = <<>>
    /\ IF part = "pacing" THEN TRUE
       ELSE /\ q_min_interval = 0 /\ q_batches = 0 /\ q_stack = <<>>
            /\ q_elapsed = 0 /\ q_since_call = -1 /\ q_gap = -1

\* A step of one part leaves the variables of the other parts alone.
Untouched(part) ==
    /\ IF part = "workers" THEN TRUE ELSE UNCHANGED wvars
    /\ IF part = "batch" THEN TRUE ELSE UNCHANGED bvars
    /\ IF part = "validate" THEN TRUE ELSE UNCHANGED vvars
    /\ IF part = "normalize" THEN TRUE ELSE UNCHANGED nvars
    /\ IF part = "cluster" THEN TRUE ELSE UNCHANGED cvars
    /\ IF part = "brand" THEN TRUE ELSE UNCHANGED gvars
    /\ IF part = "atoms" THEN TRUE ELSE UNCHANGED avars
    /\ IF part = "stage3" THEN TRUE ELSE UNCHANGED svars
    /\ IF part = "parse" THEN TRUE ELSE UNCHANGED pvars
    /\ IF part = "call" THEN TRUE ELSE UNCHANGED kvars
    /\ IF part = "aggregate" THEN TRUE ELSE UNCHANGED tvars
    /\ IF part = "sizes" THEN TRUE ELSE UNCHANGED hvars
    /\ IF part = "pacing" THEN TRUE ELSE UNCHANGED qvars

\* The item lines of worker wid's partition, whatever the shard holds.
PartitionLines(wid) == Range(load_partition(log, total_workers, wid, {}))

PartitionIds(wid) == {ItemId(log, n) : n \in PartitionLines(wid)} \ {NoId}

\* The state before any worker has started, the shard file of worker 1
\* holding the chunks old (left there by earlier runs).
WInitWith(old) ==
    /\ log \in Logs
    /\ total_workers \in 1..MaxWorkers
    /\ script \in {"sharded", "batched"}
    /\ skip_existing \in BOOLEAN
    /\ script = "sharded" => skip_existing
    /\ pc = [w \in Workers |-> "idle"]
    /\ existing_ids = [w \in Workers |-> {}]
    /\ all_items = [w \in Workers |-> <<>>]
    /\ pos = [w \in Workers |-> 0]
    /\ shard = [w \in Workers |-> IF w = 1 THEN old ELSE <<>>]
    /\ starts = 0
    /\ start_len = [w \in Workers |-> 0]
    /\ prev_full = [w \in Workers |-> FALSE]
    /\ submitted = [w \in Workers |-> {}]
    /\ AtRest("workers")

\* No shard file exists yet.
WInit == WInitWith(<<>>)

\* stage2_sharded started on no shard files, or with the shard of worker 1
\* holding a record whose id matches no input item (the input log was
\* replaced after an earlier run).
ShardedInit ==
    /\ \E old \in {<<>>, <<Chunk(ForeignId, TRUE, TRUE)>>} : WInitWith(old)
    /\ script = "sharded"

\* main() up to the batch loop: read the shard, scan the partition.
\* The skip set read from the shards of all workers.
ExistingIdsOfAll(w) ==
    IF skip_existing
    THEN UNION {load_existing_ids_from_shard(shard[v]) : v \in Workers}
    ELSE {}

\* shard_path = output_dir / f"enriched.worker_{worker_id:02d}.jsonl", and
\* existing_ids read from that file: the shard of worker w and no other.
ExistingIds(w) ==
    IF skip_existing THEN load_existing_ids_from_shard(shard[w]) ELSE {}

Start(w) ==
    /\ w <= total_workers
    /\ pc[w] # "running"
    /\ starts < MaxStarts
    /\ starts' = starts + 1
    /\ LET existing == ExistingIds(w)
       IN  /\ existing_ids' = [existing_ids EXCEPT ![w] = existing]
           /\ all_items' = [all_items EXCEPT ![w] =
                                load_partition(log, total_workers, w, existing)]
    /\ pos' = [pos EXCEPT ![w] = 0]
    /\ start_len' = [start_len EXCEPT ![w] = Len(shard[w])]
    /\ prev_full' = [prev_full EXCEPT ![w] =
                        pc[w] = "done" /\ PartitionLines(w) # {}
                            /\ \A n \in PartitionLines(w) :
                                   ItemId(log, n) \in ParseableIds(shard[w])]
    /\ submitted' = [submitted EXCEPT ![w] = {}]
    /\ pc' = [pc EXCEPT ![w] = "running"]
    /\ UNCHANGED <<log, total_workers, script, skip_existing, shard>>
    /\ Untouched("workers")

\* all_items[i:i + batch_size]
Batch(w) == SubSeq(all_items[w], pos[w] + 1, Min(pos[w] + BatchSize, Len(all_items[w])))

BatchItemIds(w) ==
    SubSeq([k \in 1..Len(Batch(w)) |-> ItemId(log, Batch(w)[k])], 1, Len(Batch(w)))

\* The records of results rs as they reach the file: each one whole and
\* newline-ended.
Written(rs) == SubSeq([k \in 1..Len(rs) |-> Chunk(rs[k], TRUE, TRUE)], 1, Len(rs))

\* The file opened for writing anew: what it held is gone.
Overwrite(sh, rs) == Written(rs)

\* open(shard_path, "a") and fout.write(json.dumps(r) + "\n") for each result:
\* the records go behind what the file holds.
AppendTo(sh, rs) == sh \o Written(rs)

\* One turn of the batch loop: batch_ids = {item["id"]: ...} raises KeyError
\* for an item without an id; process_batch_with_retry returns the results,
\* which are written and flushed, or lets an exception through.  An
\* exception ends the process.
NextBatch(w) ==
    /\ pc[w] = "running"
    /\ pos[w] < Len(all_items[w])
    /\ IF NoId \in Range(BatchItemIds(w))
       THEN /\ pc' = [pc EXCEPT ![w] = "aborted"]
            /\ UNCHANGED <<shard, pos, submitted>>
       ELSE \E out \in process_batch_with_retry(script, BatchItemIds(w), MaxRetries) :
                /\ submitted' = [submitted EXCEPT ![w] = @ \cup Range(Batch(w))]
                /\ IF out.kind = "raised"
                   THEN /\ pc' = [pc EXCEPT ![w] = "aborted"]
                        /\ UNCHANGED <<shard, pos>>
                   ELSE /\ Len(shard[w]) + Len(out.results) <= MaxShard
                        /\ shard' = [shard EXCEPT ![w] = AppendTo(@, out.results)]
                        /\ pos' = [pos EXCEPT ![w] = @ + BatchSize]
                        /\ pc' = pc
    /\ UNCHANGED <<log, total_workers, script, skip_existing, existing_ids, all_items,
                   starts, start_len, prev_full>>
    /\ Untouched("workers")

\* The batch loop is over: "=== Complete ===".
Finish(w) ==
    /\ pc[w] = "running"
    /\ pos[w] >= Len(all_items[w])
    /\ pc' = [pc EXCEPT ![w] = "done"]
    /\ UNCHANGED <<log, total_workers, script, skip_existing, existing_ids, all_items,
                   pos, shard, starts, start_len, prev_full, submitted>>
    /\ Untouched("workers")

\* The process is gone, and its memory with it.
Stopped(w) ==
    /\ pc' = [pc EXCEPT ![w] = "stopped"]
    /\ existing_ids' = [existing_ids EXCEPT ![w] = {}]
    /\ all_items' = [all_items EXCEPT ![w] = <<>>]
    /\ pos' = [pos EXCEPT ![w] = 0]
    /\ submitted' = [submitted EXCEPT ![w] = {}]

\* The process is terminated from outside between two batches, or while a
\* request is in flight: the shard is as the last flush left it.
Kill(w) ==
    /\ pc[w] = "running"
    /\ Stopped(w)
    /\ UNCHANGED <<log, total_workers, script, skip_existing, shard, starts,
                   start_len, prev_full>>
    /\ Untouched("workers")

\* The process is terminated from outside while it writes the results of a
\* batch: the first j records have reached the file, and of the next one
\* nothing ("clean"), a part of its text ("cut"), or all of it but the
\* newline ("nonl").
KillInBatch(w) ==
    /\ pc[w] = "running"
    /\ pos[w] < Len(all_items[w])
    /\ NoId \notin Range(BatchItemIds(w))
    /\ \E out \in process_batch_with_retry(script, BatchItemIds(w), MaxRetries) :
          /\ out.kind = "returned"
          /\ \E j \in 0..(Len(out.results) - 1), how \in {"clean", "cut", "nonl"} :
                /\ j > 0 \/ how # "clean"
                /\ Len(shard[w]) + j + 1 <= MaxShard
                /\ shard' = [shard EXCEPT ![w] =
                       AppendTo(@, SubSeq(out.results, 1, j))
                         \o (IF how = "clean" THEN <<>>
                             ELSE <<Chunk(out.results[j + 1], how = "nonl", FALSE)>>)]
    /\ Stopped(w)
    /\ UNCHANGED <<log, total_workers, script, skip_existing, starts, start_len,
                   prev_full>>
    /\ Untouched("workers")

WNext ==
    \E w \in Workers :
        Start(w) \/ NextBatch(w) \/ Finish(w) \/ Kill(w) \/ KillInBatch(w)

\* Startup alone: every worker reads its shard and scans its partition.
PartitionNext == \E w \in Workers : Start(w)

\* ------------------------------------------------------------- one call of the batch client
\* Batches of 1..MaxBatch items, ids named in order of first appearance; an id
\* may occur on several items.
Batches ==
    {ids \in UNION {[1..n -> 1..MaxBatch] : n \in 1..MaxBatch} :
        \A k \in 1..Len(ids) :
            \A j \in 1..(ids[k] - 1) : \E m \in 1..(k - 1) : ids[m] = j}

Distinct(seq) == \A k, m \in 1..Len(seq) : k # m => seq[k] # seq[m]

\* A frame: items are positions of the batch, attempt counts the turns of the
\* retry loop done, phase says where the call stands ("try": in the loop;
\* "left" / "right": waiting for that recursive call), left holds the result
\* of the left half.
Frame(items) == [items |-> items, attempt |-> 0, phase |-> "try", left |-> <<>>]

IdsAt(items) == SubSeq([k \in 1..Len(items) |-> b_ids[items[k]]], 1, Len(items))

Positions(n) == SubSeq([k \in 1..n |-> k], 1, n)

BInit ==
    /\ b_script \in {"sharded", "batched"}
    /\ b_ids \in Batches
    /\ b_poison \in 0..Len(b_ids)
    /\ b_stack = <<Frame(Positions(Len(b_ids)))>>
    /\ b_out = Running
    /\ b_last = NoRequest
    /\ AtRest("batch")

\* The classifier's answers to a request covering items.  With a poison item
\* in the batch, a request that contains it gets answers that fail validation
\* and a request that does not gets answers that pass; otherwise any answer.
Answers(items) ==
    LET ids == IdsAt(items)
        all == Responses(ids)
    IN  IF b_poison = 0 THEN all
        ELSE IF b_poison \in Range(items)
             THEN {r \in all : attempt(b_script, r, ids) = NextAttempt}
             ELSE {r \in all : attempt(b_script, r, ids).kind = "returned"}

\* A call returns rs to the frames below it: the caller waiting for its left
\* half goes on with the right half; the caller waiting for its right half
\* returns left + right in its turn; with no caller the outcome is rs.
RECURSIVE ReturnTo(_, _)
ReturnTo(stack, rs) ==
    IF stack = <<>> THEN [stack |-> <<>>, out |-> Returned(rs)]
    ELSE LET top == stack[Len(stack)]
             below == SubSeq(stack, 1, Len(stack) - 1)
         IN  IF top.phase = "left"
             THEN [stack |-> below
                       \o <<[top EXCEPT !.phase = "right", !.left = rs]>>
                       \o <<Frame(RightHalf(top.items))>>,
                   out |-> Running]
             ELSE ReturnTo(below, top.left \o rs)

Top == b_stack[Len(b_stack)]
Below == SubSeq(b_stack, 1, Len(b_stack) - 1)

\* What became of a response to a request covering ids: "empty" (None came
\* back), "mismatch" (an array rejected for its count or its ids), "rejected"
\* (rejected for its shape), "accepted", or "raised".
Verdict(scr, resp, ids) ==
    LET a == attempt(scr, resp, ids)
    IN  IF resp.shape = "none" THEN "empty"
        ELSE IF a.kind = "raised" THEN "raised"
        ELSE IF a.kind = "returned" THEN "accepted"
        ELSE IF /\ resp.shape = "array"
                /\ \/ Len(resp.elems) # Len(ids)
                   \/ DictIds(resp.elems) # Range(ids)
             THEN "mismatch"
        ELSE "rejected"

\* One turn of the retry loop: call_gemini_batch, validate, normalize.
Attempt ==
    /\ b_out = Running
    /\ Top.phase = "try"
    /\ Top.attempt < MaxRetries
    /\ \E resp \in Answers(Top.items) :
          /\ LET a == attempt(b_script, resp, IdsAt(Top.items))
             IN  IF a = NextAttempt
                 THEN /\ b_stack' = Below \o <<[Top EXCEPT !.attempt = @ + 1]>>
                      /\ b_out' = b_out
                 ELSE IF a.kind = "raised"
                 THEN /\ b_stack' = <<>>
                      /\ b_out' = Raised
                 ELSE LET r == ReturnTo(Below, a.results)
                      IN  /\ b_stack' = r.stack
                          /\ b_out' = r.out
          /\ b_last' = [items |-> Top.items,
                        verdict |-> Verdict(b_script, resp, IdsAt(Top.items))]
    /\ UNCHANGED <<b_script, b_ids, b_poison>>
    /\ Untouched("batch")

\* The retry loop is used up: a batch of several items is split, and the
\* call for items[:mid] starts.
Split ==
    /\ b_out = Running
    /\ Top.phase = "try"
    /\ Top.attempt = MaxRetries
    /\ Len(Top.items) > 1
    /\ b_stack' = Below \o <<[Top EXCEPT !.phase = "left"]>>
                        \o <<Frame(LeftHalf(Top.items))>>
    /\ b_out' = b_out
    /\ UNCHANGED <<b_script, b_ids, b_poison, b_last>>
    /\ Untouched("batch")

\* The retry loop is used up on a single item: return [].
Drop ==
    /\ b_out = Running
    /\ Top.phase = "try"
    /\ Top.attempt = MaxRetries
    /\ Len(Top.items) = 1
    /\ LET r == ReturnTo(Below, <<>>)
       IN  /\ b_stack' = r.stack
           /\ b_out' = r.out
    /\ UNCHANGED <<b_script, b_ids, b_poison, b_last>>
    /\ Untouched("batch")

BNext == Attempt \/ Split \/ Drop

\* ------------------------------------------------------------- call_gemini_batch: the parsed answer
\* What json.loads makes of the classifier's text: a scalar (number, string,
\* boolean), null, an array of members, an object without a "results" key
\* (seen as one result), or an object whose "results" value is results.
ScalarJson == [kind |-> "scalar"]
NullJson == [kind |-> "null"]
ArrayJson(es) == [kind |-> "array", elems |-> es]
SingleJson(e) == [kind |-> "single", elem |-> e]
ObjectJson(results) == [kind |-> "object", results |-> results]

\* A "results" value that is an object: its members are its keys.
ObjectResults(n) ==
    [shape |-> "object", elems |-> SubSeq([k \in 1..n |-> Junk], 1, n)]

\* The tail of call_gemini_batch: a list is wrapped as {"results": list}, a
\* dict without "results" as {"results": [dict]}, a dict is returned and
\* anything else becomes None.
WrapResult(result) ==
    IF result.kind = "array" THEN ArrayResults(result.elems)
    ELSE IF result.kind = "single" THEN ArrayResults(<<result.elem>>)
    ELSE IF result.kind = "object" THEN result.results
    ELSE NoResponse

\* The parsed answers tried for a request covering ids.
ParsedAnswers(ids) ==
    {ScalarJson, NullJson}
        \cup {ArrayJson(r.elems) : r \in {q \in Responses(ids) : q.shape = "array"}}
        \cup {SingleJson(e) : e \in {x \in ElemsFor(ids) : x.kind = "obj"}}
        \cup {ObjectJson(r) : r \in (Responses(ids) \ {NoResponse})
                                        \cup {ObjectResults(Len(ids))}}

PInit ==
    /\ p_script \in {"sharded", "batched"}
    /\ p_ids \in Batches
    /\ p_parsed \in ParsedAnswers(p_ids)
    /\ p_out = "unset"
    /\ AtRest("parse")

\* One turn of the retry loop on the parsed answer: it is wrapped, validated
\* and, once accepted, normalised; the turn ends "returned" (accepted),
\* "next" (no response or validation failure) or "raised" (an exception
\* leaves process_batch_with_retry).
ParseAndValidate ==
    /\ p_out = "unset"
    /\ p_out' = attempt(p_script, WrapResult(p_parsed), p_ids).kind
    /\ UNCHANGED <<p_script, p_ids, p_parsed>>
    /\ Untouched("parse")

PNext == ParseAndValidate

\* ------------------------------------------------------------- call_gemini_batch: requests and waits
\* What a request can come to:
\*   "neterr"        requests.post raises (timeout, connection error)
\*   "429"           status 429
\*   "non200"        any other status that is not 200
\*   "badbody"       status 200, resp.json() raises
\*   "nocandidates"  status 200, no "candidates" key or an empty list
\*   "badstruct"     candidates[0]["content"]["parts"][0]["text"] raises
\*   "badtext"       json.loads(text) raises JSONDecodeError
\*   "scalar"        the text parses to a value that is no list and no dict
\*   "ok"            the text parses to a list or a dict
ResponseKinds ==
    {"neterr", "429", "non200", "badbody", "nocandidates", "badstruct", "badtext",
     "scalar", "ok"}

RECURSIVE Pow2(_)
Pow2(n) == IF n = 0 THEN 1 ELSE 2 * Pow2(n - 1)

\* time.sleep(1).
FixedDelay == 1

\* A sleep of secs seconds, plus a fraction random.uniform(0, 1) of a second
\* when jitter is set.
Sleep(secs, jitter) == [secs |-> secs, jitter |-> jitter]
NoSleep == Sleep(0, FALSE)

\* The except branch "if attempt < max_retries - 1: time.sleep(1)", in the
\* turn of the loop in which attempt = turn.
SleepUnlessLast(turn, max_retries) ==
    IF turn < max_retries - 1 THEN Sleep(FixedDelay, FALSE) ELSE NoSleep

\* The sleeps one turn of the loop can end with, for a response of kind resp.
\* stage2_batched has an except branch for json.JSONDecodeError that sleeps
\* in every turn; whether the error of resp.json() is a JSONDecodeError
\* depends on the version of requests, so both branches are outcomes.
SleepsAfter(scr, resp, turn, max_retries) ==
    IF resp = "429" THEN {Sleep(Pow2(turn), TRUE)}
    ELSE IF resp = "non200" THEN {Sleep(FixedDelay, FALSE)}
    ELSE IF resp \in {"nocandidates", "scalar", "ok"} THEN {NoSleep}
    ELSE IF resp = "badtext" /\ scr = "batched" THEN {Sleep(FixedDelay, FALSE)}
    ELSE IF resp = "badbody" /\ scr = "batched"
         THEN {Sleep(FixedDelay, FALSE), SleepUnlessLast(turn, max_retries)}
    ELSE {SleepUnlessLast(turn, max_retries)}

KInit ==
    /\ k_script \in {"sharded", "batched"}
    /\ k_max \in 1..MaxCallRetries
    /\ k_attempt = 0
    /\ k_log = <<>>
    /\ k_out = "running"
    /\ AtRest("call")

\* One turn of "for attempt in range(max_retries)": the request, the branch
\* taken on its response, and the sleep of that branch.
Request ==
    /\ k_out = "running"
    /\ k_attempt < k_max
    /\ \E resp \in ResponseKinds :
          \E slept \in SleepsAfter(k_script, resp, k_attempt, k_max) :
              /\ k_log' = Append(k_log, [resp |-> resp, slept |-> slept])
              /\ k_out' = IF resp = "ok" THEN "result"
                          ELSE IF resp = "scalar" THEN "none"
                          ELSE k_out
    /\ k_attempt' = k_attempt + 1
    /\ UNCHANGED <<k_script, k_max>>
    /\ Untouched("call")

\* The loop is over: return None.
GiveUp ==
    /\ k_out = "running"
    /\ k_attempt = k_max
    /\ k_out' = "none"
    /\ UNCHANGED <<k_script, k_max, k_attempt, k_log>>
    /\ Untouched("call")

KNext == Request \/ GiveUp

\* ------------------------------------------------------------- validate_batch_response alone
VInit ==
    /\ v_script \in {"sharded", "batched"}
    /\ v_ids \in Batches
    /\ v_resp \in Responses(v_ids)
    /\ v_verdict = "unset"
    /\ AtRest("validate")

Validate ==
    /\ v_verdict = "unset"
    /\ v_verdict' = validate_batch_response(v_script, v_resp, v_ids)
    /\ UNCHANGED <<v_script, v_ids, v_resp>>
    /\ Untouched("validate")

VNext == Validate

\* ------------------------------------------------------------- normalize_result
CANONICAL_ISSUE_TYPES ==
    <<"bug", "outage", "ux", "account", "billing", "policy",
      "security", "performance", "feature_request", "other", "not_applicable">>

CANONICAL_SEVERITIES == <<"none", "low", "medium", "high">>

ISSUE_TYPE_MAPPINGS ==
    ("promotion" :> "not_applicable") @@ ("promotional" :> "not_applicable")
    @@ ("gameplay" :> "ux") @@ ("hardware" :> "bug") @@ ("compatibility" :> "bug")
    @@ ("discussion" :> "not_applicable")
    @@ ("general discussion" :> "not_applicable")
    @@ ("general" :> "other") @@ ("question" :> "other")
    @@ ("community" :> "not_applicable") @@ ("none" :> "not_applicable")
    @@ ("na" :> "not_applicable") @@ ("" :> "other")

\* Mutant: a synonym table with a canonical severity among its keys.
SEVERITY_MAPPINGS_WithCanonicalKey ==
    ("minor" :> "low") @@ ("moderate" :> "medium") @@ ("major" :> "high")
    @@ ("critical" :> "high") @@ ("severe" :> "high") @@ ("serious" :> "high")
    @@ ("urgent" :> "high") @@ ("low" :> "high")

SEVERITY_MAPPINGS ==
    ("minor" :> "low") @@ ("moderate" :> "medium") @@ ("major" :> "high")
    @@ ("critical" :> "high") @@ ("severe" :> "high") @@ ("serious" :> "high")
    @@ ("urgent" :> "high")

\* A JSON value of a field, as far as normalize_result tells values apart.
\* A string is its lowercase text (word), whether it is written in capitals
\* (caps) and whether whitespace surrounds it (pad); the other kinds are
\* "absent" (no such key), "null", "falsy" (0, false, [], {}) and "truthy"
\* (any other value that is no string).
Value(kind, word, caps, pad) == [kind |-> kind, word |-> word, caps |-> caps, pad |-> pad]

Text(word) == Value("str", word, FALSE, FALSE)

\* A word that is in no table.
UnknownWord == "unheard of"

Words ==
    DOMAIN ISSUE_TYPE_MAPPINGS \cup Range(CANONICAL_ISSUE_TYPES)
        \cup DOMAIN SEVERITY_MAPPINGS \cup Range(CANONICAL_SEVERITIES)
        \cup {UnknownWord}

\* The empty text has no capitals.
Strings == {Value("str", w, c, p) : w \in Words, c \in BOOLEAN, p \in BOOLEAN}
               \ {Value("str", "", TRUE, p) : p \in BOOLEAN}

Values ==
    Strings \cup {Value(k, "", FALSE, FALSE) : k \in {"absent", "null", "falsy", "truthy"}}

\* str.lower() and str.strip()
Lower(v) == [v EXCEPT !.caps = FALSE]
Strip(v) == [v EXCEPT !.pad = FALSE]

\* bool(v) is False: None, 0, false, [], {} and the string of length 0.
Falsy(v) == v.kind \in {"null", "falsy"} \/ v = Text("")

\* result.get(key, default) or default
GetOr(v, default) ==
    LET got == IF v.kind = "absent" THEN Text(default) ELSE v
    IN  IF Falsy(got) THEN Text(default) ELSE got

\* The treatment of one field, with the synonym table returning the lowered
\* text itself when no table knows it.
normalize_field_passthrough(v, default, mappings, canonical, fallback) ==
    LET raw == GetOr(v, default)
    IN  IF raw.kind # "str" THEN [raised |-> TRUE, value |-> "", raw |-> raw]
        ELSE LET raw_lower == Strip(Lower(raw)).word
             IN  [raised |-> FALSE,
                  raw |-> raw,
                  value |-> IF raw_lower \in DOMAIN mappings THEN mappings[raw_lower]
                            ELSE raw_lower]

\* The treatment of one field without str.strip().
normalize_field_unstripped(v, default, mappings, canonical, fallback) ==
    LET raw == GetOr(v, default)
    IN  IF raw.kind # "str" THEN [raised |-> TRUE, value |-> "", raw |-> raw]
        ELSE LET known == ~raw.pad
                 raw_lower == Lower(raw).word
             IN  [raised |-> FALSE,
                  raw |-> raw,
                  value |-> IF known /\ raw_lower \in DOMAIN mappings
                            THEN mappings[raw_lower]
                            ELSE IF known /\ raw_lower \in Range(canonical)
                            THEN raw_lower
                            ELSE fallback]

\* The treatment normalize_result gives each of its two fields: the raw value
\* or the default, lowercased and stripped (AttributeError when it is no
\* string), then the synonym table, the canonical list, the fallback.  raw
\* is what result.get(key, default) or default gave.
normalize_field(v, default, mappings, canonical, fallback) ==
    LET raw == GetOr(v, default)
    IN  IF raw.kind # "str" THEN [raised |-> TRUE, value |-> "", raw |-> raw]
        ELSE LET raw_lower == Strip(Lower(raw)).word
             IN  [raised |-> FALSE,
                  raw |-> raw,
                  value |-> IF raw_lower \in DOMAIN mappings THEN mappings[raw_lower]
                            ELSE IF raw_lower \in Range(canonical) THEN raw_lower
                            ELSE fallback]

normalize_result(result) ==
    LET issue == normalize_field(result.issue_type, "other", ISSUE_TYPE_MAPPINGS,
                                 CANONICAL_ISSUE_TYPES, "other")
        severity == normalize_field(result.severity, "none", SEVERITY_MAPPINGS,
                                    CANONICAL_SEVERITIES, "medium")
    IN  [raised |-> issue.raised \/ severity.raised,
         issue_type |-> issue.value,
         severity |-> severity.value,
         raw_issue_type |-> issue.raw]

NInit ==
    /\ n_result \in [issue_type : Values, severity : Values]
    /\ n_out = NotCalled
    /\ AtRest("normalize")

Normalize ==
    /\ n_out = NotCalled
    /\ n_out' = normalize_result(n_result)
    /\ UNCHANGED n_result
    /\ Untouched("normalize")

NNext == Normalize

\* ------------------------------------------------------------- atom extraction alone
\* A phrase no trigger occurs in.
OtherPhrase == "hello"

\* The phrases the texts of the model are written with.
Phrases == Triggers \cup {OtherPhrase}

NotExtracted == <<"not extracted">>

\* The text is up to MaxPhrases phrases in any order and with repetitions, in
\* lower case or in capitals.
AInit ==
    /\ a_fn \in {"extract_atoms", "extract_issue_atoms"}
    /\ \E n \in 0..MaxPhrases, caps \in BOOLEAN :
          /\ n = 0 => ~caps
          /\ \E ph \in [1..n -> Phrases] : a_text = TextOf(SubSeq(ph, 1, n), caps)
    /\ a_k \in (IF a_fn = "extract_atoms" THEN 1..MaxAtoms ELSE {0})
    /\ a_out = NotExtracted
    /\ AtRest("atoms")

ExtractAtoms ==
    /\ a_out = NotExtracted
    /\ a_out' = IF a_fn = "extract_atoms" THEN extract_atoms(a_text, a_k)
                ELSE extract_issue_atoms(a_text)
    /\ UNCHANGED <<a_fn, a_text, a_k>>
    /\ Untouched("atoms")

ANext == ExtractAtoms

\* ------------------------------------------------------------- get_brand_effective
Absent == Value("absent", "", FALSE, FALSE)
Null == Value("null", "", FALSE, FALSE)

\* The characters of a lower-case string value.
Render(v) == IF v.pad THEN " " \o v.word \o " " ELSE v.word

\* BRAND_SUBREDDITS of the two scripts, as far as the model names subreddits:
\* office365 is in the table of stage2_postprocess_v2 only.
BRAND_SUBREDDITS(scr) ==
    IF scr = "v2" THEN {"iphone", "steam", "office365"} ELSE {"iphone", "steam"}

\* subreddit_map / SUBREDDIT_TO_BRAND
SUBREDDIT_TO_BRAND(scr) ==
    IF scr = "v2" THEN ("iphone" :> "apple") @@ ("office365" :> "microsoft")
    ELSE ("iphone" :> "apple")

\* Domains that are no brand.
DomainDenylist(scr) ==
    IF scr = "v2" THEN {"reddit", "redd", "imgur", "gfycat", "giphy", "youtube", "youtu"}
    ELSE {"reddit", "redd", "imgur", "gfycat"}

\* Country-code endings under which a registrable name sits one label further left.
CountryEndings == {"uk", "au", "jp", "de", "fr", "ca", "br"}

\* No domain found.
NoDomain == ""

\* extract_registrable_domain(url): a url is the labels of its host, in lower
\* case; the url without a host is the empty one.
extract_registrable_domain(url) ==
    IF url = <<>> THEN NoDomain
    ELSE LET host == IF Len(url) >= 2 /\ url[1] = "www" THEN SubSeq(url, 2, Len(url))
                     ELSE url
             n == Len(host)
         IN IF n >= 2
            THEN IF host[n] \in CountryEndings /\ n >= 3 THEN host[n - 2]
                 ELSE host[n - 1]
            ELSE host[1]

\* item.get('original_brand_hints') or item.get('brand_hints') or []
HintsOf(item) ==
    IF item.original_brand_hints # <<>> THEN item.original_brand_hints
    ELSE item.brand_hints

\* Rules 3 to 5: subreddit table, first brand hint, "unknown".
BrandAfterDomain(item, scr) ==
    LET sub == IF Falsy(item.subreddit) \/ item.subreddit.kind = "absent" THEN Text("")
               ELSE Lower(item.subreddit)
        known == ~sub.pad /\ sub.word \in BRAND_SUBREDDITS(scr)
    IN IF known
       THEN IF sub.word \in DOMAIN SUBREDDIT_TO_BRAND(scr)
            THEN Text(SUBREDDIT_TO_BRAND(scr)[sub.word])
            ELSE Text(sub.word)
       ELSE IF HintsOf(item) # <<>> THEN Lower(HintsOf(item)[1])
       ELSE Text("unknown")

\* The function with the subreddit looked up before the url.
get_brand_effective_subreddit_first(item, scr) ==
    LET brand == item.canonical_brand
        domain == extract_registrable_domain(item.url)
        late == BrandAfterDomain(item, scr)
        bysub == BrandAfterDomain([item EXCEPT !.original_brand_hints = <<>>,
                                               !.brand_hints = <<>>], scr)
    IN IF brand.kind = "str" /\ ~Falsy(brand)
          /\ Lower(brand) \notin {Text("unknown"), Text("null"), Text("none"), Text("")}
       THEN Lower(brand)
       ELSE IF bysub # Text("unknown") THEN bysub
       ELSE IF domain # NoDomain /\ Len(domain) > 2
               /\ domain \notin DomainDenylist(scr)
       THEN Text(domain)
       ELSE late

\* get_brand_effective(item) of script scr ("v2" is stage2_postprocess_v2,
\* "final" is stage2_final).
get_brand_effective(item, scr) ==
    LET brand == item.canonical_brand
        domain == extract_registrable_domain(item.url)
    IN IF brand.kind = "str" /\ ~Falsy(brand)
          /\ Lower(brand) \notin {Text("unknown"), Text("null"), Text("none"), Text("")}
       THEN Lower(brand)
       ELSE IF domain # NoDomain /\ Len(domain) > 2
               /\ domain \notin DomainDenylist(scr)
       THEN Text(domain)
       ELSE BrandAfterDomain(item, scr)

\* ------------------------------------------------------------- get_brand_effective alone
HostLabels == {"www", "hp", "acme", "youtube", "uk", "com"}

\* The urls of the model: none, or a host of up to MaxLabels distinct labels.
Urls ==
    {<<>>} \cup UNION {{h \in [1..n -> HostLabels] :
                          \A i, j \in 1..n : i # j => h[i] # h[j]} : n \in 1..MaxLabels}

BrandItems ==
    [ canonical_brand : {Absent, Null, Text(""), Text("null"),
                         Value("str", "unknown", TRUE, FALSE),
                         Value("str", "unknown", FALSE, TRUE),
                         Value("str", "acme", TRUE, FALSE)},
      url : Urls,
      subreddit : {Absent, Null, Value("str", "iphone", TRUE, FALSE),
                   Text("office365"), Text("steam"), Text("acme")},
      original_brand_hints : {<<>>, <<Value("str", "globex", TRUE, FALSE)>>},
      brand_hints : {<<>>, <<Value("str", "initech", TRUE, FALSE), Text("globex")>>} ]

GInit ==
    /\ g_script \in {"v2", "final"}
    /\ g_item \in BrandItems
    /\ g_out = Absent
    /\ AtRest("brand")

BrandEffective ==
    /\ g_out = Absent
    /\ g_out' = get_brand_effective(g_item, g_script)
    /\ UNCHANGED <<g_script, g_item>>
    /\ Untouched("brand")

GNext == BrandEffective

\* ------------------------------------------------------------- process_item
\* body[:500] and slug[:64] cut nothing off: the texts of the model are shorter.
\* stage2_postprocess_v2.get_source_text(item)
get_source_text_v2(item) ==
    LET body == IF item.body # NoText THEN item.body ELSE item.text
    IN IF body # NoText /\ CharLen(body) > 50 THEN body
       ELSE IF item.title # NoText /\ CharLen(item.title) > 10 THEN item.title
       ELSE item.summary

\* stage2_final.get_source_text(item)
get_source_text_final(item) ==
    LET body == IF item.body # NoText THEN item.body ELSE item.text
    IN IF body # NoText /\ CharLen(body) > 50 THEN body
       ELSE IF item.title # NoText THEN item.title
       ELSE item.summary

get_source_text(item, scr) ==
    IF scr = "v2" THEN get_source_text_v2(item) ELSE get_source_text_final(item)

\* slugify(text) of a text of plain words: lower case, the blanks made hyphens.
slugify(text) == Join(text.phrases, Len(text.phrases), "-")

\* compute_sha1(text): the digest is written as the text it is the digest of;
\* two texts have one digest only if they are one text.
compute_sha1(text) == [sha1 |-> text]

\* item.get('issue_type', 'other') or 'other', as the f-string writes it.
IssueTypeOf(item) == GetOr(item.issue_type, "other").word

\* The coarse signature with the normalised display key in it.
SigCoarseWithKey(brand, issue_type, atoms_coarse, cluster_key_norm) ==
    brand \o "|" \o issue_type \o "|" \o atoms_coarse \o "|" \o cluster_key_norm

\* sig_coarse = f"{brand_effective}|{issue_type}|{atoms_coarse}"
SigCoarse(brand, issue_type, atoms_coarse, cluster_key_norm) ==
    brand \o "|" \o issue_type \o "|" \o atoms_coarse

\* sig_fine = f"{brand_effective}|{issue_type}|{atoms_fine}|{cluster_key_norm}"
SigFine(brand, issue_type, atoms_fine, cluster_key_norm) ==
    brand \o "|" \o issue_type \o "|" \o atoms_fine \o "|" \o cluster_key_norm

\* stage2_postprocess_v2.process_item(item): the fields it adds.
process_item_v2(item) ==
    LET cluster_key_norm == slugify(item.cluster_key)
        brand_effective == Render(get_brand_effective(item, "v2"))
        issue_type == IssueTypeOf(item)
        source_text == get_source_text_v2(item)
        atoms_coarse == atoms_bucket(source_text, 2)
        atoms_fine == atoms_bucket(source_text, 4)
        sig_coarse == SigCoarse(brand_effective, issue_type, atoms_coarse, cluster_key_norm)
        sig_fine == SigFine(brand_effective, issue_type, atoms_fine, cluster_key_norm)
    IN [ cluster_key_llm |-> item.cluster_key,
         cluster_key_norm |-> cluster_key_norm,
         brand_effective |-> brand_effective,
         issue_type |-> issue_type,
         cluster_atoms_coarse |-> atoms_coarse,
         cluster_atoms_fine |-> atoms_fine,
         cluster_signature_coarse |-> sig_coarse,
         cluster_signature_fine |-> sig_fine,
         cluster_id_coarse |-> compute_sha1(sig_coarse),
         cluster_id_fine |-> compute_sha1(sig_fine) ]

\* stage2_final.process_item(item): the fields it adds.
process_item_final(item) ==
    LET cluster_key_norm == slugify(item.cluster_key)
        brand_effective == Render(get_brand_effective(item, "final"))
        issue_type == IssueTypeOf(item)
        atoms == extract_issue_atoms(get_source_text_final(item))
        cluster_signature == brand_effective \o "|" \o issue_type
    IN [ cluster_key_llm |-> item.cluster_key,
         cluster_key_norm |-> cluster_key_norm,
         brand_effective |-> brand_effective,
         issue_type |-> issue_type,
         issue_atoms |-> atoms,
         cluster_signature |-> cluster_signature,
         cluster_id_coarse |-> compute_sha1(cluster_signature) ]

process_item(item, scr) ==
    IF scr = "v2" THEN process_item_v2(item) ELSE process_item_final(item)

\* ------------------------------------------------------------- clustering two items
\* The text with every trigger of the table in it, in the order of the table.
RECURSIVE TriggersUpTo(_)
TriggersUpTo(n) ==
    IF n = 0 THEN <<>> ELSE TriggersUpTo(n - 1) \o <<ATOM_LOOKUP[n].trigger>>

FullText == TextOf(TriggersUpTo(Len(ATOM_LOOKUP)), FALSE)

\* The text without its k-th phrase.
Without(text, k) ==
    TextOf(SubSeq(text.phrases, 1, k - 1) \o SubSeq(text.phrases, k + 1, Len(text.phrases)),
           text.caps)

\* Titles: none, one too short to count, and the texts that leave out at
\* most one trigger.
Titles ==
    {NoText, TextOf(<<"app">>, FALSE), FullText}
        \cup {Without(FullText, k) : k \in 1..Len(FullText.phrases)}

\* The enriched items the clustering pass is run on.
ClusterItems ==
    [ canonical_brand : {Absent, Value("str", "acme", TRUE, FALSE)},
      url : {<<>>},
      subreddit : {Absent},
      original_brand_hints : {<<>>},
      brand_hints : {<<>>},
      issue_type : {Absent, Text("other"), Text("bug")},
      body : {NoText, FullText},
      text : {NoText},
      title : Titles,
      summary : {NoText, TextOf(<<"forgot password">>, FALSE)},
      cluster_key : {NoText, TextOf(<<"login", "loop">>, TRUE)} ]

CInit ==
    /\ c_script \in {"v2", "final"}
    /\ c_items \in ClusterItems \X ClusterItems
    /\ c_out = <<>>
    /\ AtRest("cluster")

\* The pass takes the next item and adds its clustering fields.
ProcessItem ==
    /\ Len(c_out) < Len(c_items)
    /\ c_out' = c_out \o <<process_item(c_items[Len(c_out) + 1], c_script)>>
    /\ UNCHANGED <<c_script, c_items>>
    /\ Untouched("cluster")

CNext == ProcessItem

\* The items the signatures are compared on: brands written with and without
\* the separator of the signature in them, the issue types the normalizer
\* hands on, and summaries with every bucket of up to two atoms of three
\* triggers.
SigBrands ==
    {Absent} \cup {Value("str", b, FALSE, FALSE) :
                       b \in {"acme", "acme|bug", "acme|bug|app", "bug"}}

SigIssueTypes == {Absent} \cup {Text(t) : t \in {"other", "bug", "account"}}

SigSummaries ==
    {NoText} \cup {TextOf(ph, FALSE) :
                      ph \in {<<"hello">>, <<"app">>, <<"forgot password">>,
                               <<"app", "forgot password">>, <<"taken down">>,
                               <<"forgot password", "taken down", "app">>}}

SigItems ==
    [ canonical_brand : SigBrands,
      url : {<<>>},
      subreddit : {Absent},
      original_brand_hints : {<<>>},
      brand_hints : {<<>>},
      issue_type : SigIssueTypes,
      body : {NoText},
      text : {NoText},
      title : {NoText},
      summary : SigSummaries,
      cluster_key : {NoText} ]

SigInit ==
    /\ c_script = "v2"
    /\ c_items \in SigItems \X SigItems
    /\ c_out = <<>>
    /\ AtRest("cluster")

\* ------------------------------------------------------------- clustering and aggregation of the shards
\* A shard line the clustering pass reads: a line that does not parse (the
\* torn end of a shard), or the enriched item of kind k.
TornLine == [kind |-> "bad"]

EnrichedBase ==
    [ canonical_brand |-> Value("str", "acme", TRUE, FALSE), url |-> <<>>,
      subreddit |-> Absent, original_brand_hints |-> <<>>, brand_hints |-> <<>>,
      issue_type |-> Text("bug"), body |-> NoText, text |-> NoText,
      title |-> FullText, summary |-> NoText, cluster_key |-> NoText ]

Enriched(fields, severity, is_actionable) ==
    [kind |-> "item", fields |-> fields, severity |-> severity,
     is_actionable |-> is_actionable]

\* Three items of one cluster with different severities, one of them with a
\* severity that is in no table, and an item of another brand and cluster.
EnrichedLines ==
    { TornLine,
      Enriched(EnrichedBase, "high", TRUE),
      Enriched(EnrichedBase, "low", FALSE),
      Enriched(EnrichedBase, "urgent", TRUE),
      Enriched([EnrichedBase EXCEPT !.canonical_brand = Absent,
                                    !.title = TextOf(<<"app">>, FALSE)],
               "medium", FALSE) }

RECURSIVE ShardOf(_, _, _, _)
\* The lines of worker w's shard among the first n lines written: line k,
\* whose item has id k, is in the shard of worker owner[k].
ShardOf(lines, owner, w, n) ==
    IF n = 0 THEN <<>>
    ELSE ShardOf(lines, owner, w, n - 1)
            \o (IF owner[n] = w THEN <<[id |-> n, line |-> lines[n]]>> ELSE <<>>)

RECURSIVE ClusterFile(_, _)
\* stage2_postprocess_v2.main, inner loop over the first n lines of one input
\* file: a line that does not parse is passed over, every other item gets its
\* clustering fields and is written out (--max-items and --skip-existing not
\* given).
ClusterFile(file, n) ==
    IF n = 0 THEN <<>>
    ELSE ClusterFile(file, n - 1)
            \o (IF file[n].line.kind = "bad" THEN <<>>
                ELSE <<[ id |-> file[n].id,
                         severity |-> file[n].line.severity,
                         is_actionable |-> file[n].line.is_actionable,
                         out |-> process_item(file[n].line.fields, "v2") ]>>)

RECURSIVE ClusterFiles(_, _, _, _)
\* The outer loop: the first n files of the order, one after the other.
ClusterFiles(lines, owner, order, n) ==
    IF n = 0 THEN <<>>
    ELSE ClusterFiles(lines, owner, order, n - 1)
            \o LET file == ShardOf(lines, owner, order[n], Len(lines))
               IN ClusterFile(file, Len(file))

severity_order == ("none" :> 0) @@ ("low" :> 1) @@ ("medium" :> 2) @@ ("high" :> 3)

\* Every severity ranked alike.
SeverityRankFlat(severity) == 0

\* severity_order.get(severity, 0)
SeverityRank(severity) ==
    IF severity \in DOMAIN severity_order THEN severity_order[severity] ELSE 0

RECURSIVE SeverityLast(_, _, _)
\* The severity of the last member read.
SeverityLast(recs, n, cid) ==
    IF n = 0 THEN "none"
    ELSE IF recs[n].out.cluster_id_coarse = cid THEN recs[n].severity
    ELSE SeverityLast(recs, n - 1, cid)

RECURSIVE SeverityMax(_, _, _)
\* cd["severity_max"] of cluster cid after the first n records: a member's
\* severity replaces it when it ranks strictly higher.
SeverityMax(recs, n, cid) ==
    IF n = 0 THEN "none"
    ELSE LET before == SeverityMax(recs, n - 1, cid)
         IN IF recs[n].out.cluster_id_coarse = cid
               /\ SeverityRank(recs[n].severity) > SeverityRank(before)
            THEN recs[n].severity
            ELSE before

\* The records of recs that satisfy Where, counted.
CountWhere(recs, Where(_)) == Cardinality({k \in 1..Len(recs) : Where(recs[k])})

\* stage3_cluster_v2.process: the statistics per coarse cluster, per fine
\* cluster and per brand after all records of the clustered file (--max-items
\* not given; the export of the top-n rows is left out).
process(recs) ==
    [ total |-> Len(recs),
      coarse |-> [cid \in {recs[k].out.cluster_id_coarse : k \in 1..Len(recs)} |->
          [ count |-> CountWhere(recs, LAMBDA r : r.out.cluster_id_coarse = cid),
            actionable |-> CountWhere(recs,
                LAMBDA r : r.out.cluster_id_coarse = cid /\ r.is_actionable),
            severity_max |-> SeverityMax(recs, Len(recs), cid) ]],
      fine |-> [fid \in {recs[k].out.cluster_id_fine : k \in 1..Len(recs)} |->
          [ count |-> CountWhere(recs, LAMBDA r : r.out.cluster_id_fine = fid) ]],
      brand |-> [b \in {recs[k].out.brand_effective : k \in 1..Len(recs)} |->
          [ count |-> CountWhere(recs, LAMBDA r : r.out.brand_effective = b),
            actionable |-> CountWhere(recs,
                LAMBDA r : r.out.brand_effective = b /\ r.is_actionable) ]] ]

NotAggregated == [total |-> "not aggregated"]

\* The shard files in the order sorted() gives their names.
SortedFiles == [w \in Workers |-> w]

SInit ==
    /\ \E n \in 0..MaxRecords :
          /\ s_lines \in [1..n -> EnrichedLines]
          /\ s_owner \in [1..n -> Workers]
    /\ s_done = 0
    /\ s_out = <<>>
    /\ s_agg = NotAggregated
    /\ AtRest("stage3")

\* The clustering pass reads the next shard file to its end.
ClusterShard ==
    /\ s_done < MaxWorkers
    /\ s_done' = s_done + 1
    /\ s_out' = ClusterFiles(s_lines, s_owner, SortedFiles, s_done + 1)
    /\ UNCHANGED <<s_lines, s_owner, s_agg>>
    /\ Untouched("stage3")

\* The aggregator reads the clustered file.
Aggregate ==
    /\ s_done = MaxWorkers
    /\ s_agg = NotAggregated
    /\ s_agg' = process(s_out)
    /\ UNCHANGED <<s_lines, s_owner, s_done, s_out>>
    /\ Untouched("stage3")

SNext == ClusterShard \/ Aggregate

\* ------------------------------------------------------------- the aggregator, line by line
\* A line of the clustered file: one that does not parse, or an item with its
\* clustering fields; its id is the number of its line.
ClusteredItem(fields, severity, is_actionable, scr) ==
    [kind |-> "item", fields |-> fields, severity |-> severity,
     is_actionable |-> is_actionable, out |-> process_item(fields, scr)]

\* A Counter: its keys in the order they were first counted, each with its
\* count.
Incr(counter, key) ==
    IF \E i \in 1..Len(counter) : counter[i].key = key
    THEN LET i == CHOOSE j \in 1..Len(counter) : counter[j].key = key
         IN  SubSeq(counter, 1, i - 1)
                 \o <<[key |-> key, n |-> counter[i].n + 1]>>
                 \o SubSeq(counter, i + 1, Len(counter))
    ELSE counter \o <<[key |-> key, n |-> 1]>>

\* max(seq, key=Rank): the first of the members that rank highest.
FirstMax(seq, Rank(_)) ==
    LET i == CHOOSE j \in 1..Len(seq) :
                 /\ \A m \in 1..Len(seq) : Rank(seq[m]) <= Rank(seq[j])
                 /\ \A m \in 1..(j - 1) : Rank(seq[m]) < Rank(seq[j])
    IN  seq[i]

\* The last of the members that rank highest.
LastMax(seq, Rank(_)) ==
    LET i == CHOOSE j \in 1..Len(seq) :
                 /\ \A m \in 1..Len(seq) : Rank(seq[m]) <= Rank(seq[j])
                 /\ \A m \in (j + 1)..Len(seq) : Rank(seq[m]) < Rank(seq[j])
    IN  seq[i]

\* The most common key, the last counted on a tie.
MostCommonLast(counter) == LastMax(counter, LAMBDA e : e.n).key

\* counter.most_common(1)[0][0]: heapq.nlargest(1, ...) is max() over the
\* items in the order of the dict.
MostCommon(counter) == FirstMax(counter, LAMBDA e : e.n).key

\* sample_ids holds at most this many ids.
SampleLimit == 10

\* The value the defaultdict makes for a new cluster id.
NewCluster ==
    [ count |-> 0, actionable |-> 0, brand |-> "", issue_type |-> "",
      severity_max |-> "none", severity_counts |-> <<>>,
      cluster_key_llm_counts |-> <<>>, fine_clusters |-> <<>>, sample_ids |-> <<>> ]

\* The sample that keeps the last ids.
AddSampleSliding(sample_ids, item_id) ==
    IF Len(sample_ids) < SampleLimit THEN Append(sample_ids, item_id)
    ELSE Tail(sample_ids) \o <<item_id>>

\* if len(cd["sample_ids"]) < 10: cd["sample_ids"].append(item_id)
AddSample(sample_ids, item_id) ==
    IF Len(sample_ids) < SampleLimit THEN Append(sample_ids, item_id) ELSE sample_ids

\* The update of the cluster of an item: stage3_cluster_v2 keeps the running
\* severity maximum, stage3_final counts the severities.
UpdateCluster(scr, c, item, item_id) ==
    [ count |-> c.count + 1,
      actionable |-> c.actionable + (IF item.is_actionable THEN 1 ELSE 0),
      brand |-> item.out.brand_effective,
      issue_type |-> item.out.issue_type,
      severity_max |->
          IF scr = "v2" /\ SeverityRank(item.severity) > SeverityRank(c.severity_max)
          THEN item.severity ELSE c.severity_max,
      severity_counts |->
          IF scr = "final" THEN Incr(c.severity_counts, item.severity)
          ELSE c.severity_counts,
      cluster_key_llm_counts |->
          IF item.out.cluster_key_llm # NoText
          THEN Incr(c.cluster_key_llm_counts, item.out.cluster_key_llm)
          ELSE c.cluster_key_llm_counts,
      fine_clusters |->
          IF scr = "v2" THEN Incr(c.fine_clusters, item.out.cluster_id_fine)
          ELSE c.fine_clusters,
      sample_ids |-> AddSample(c.sample_ids, item_id) ]

\* The value the defaultdict makes for a new brand.
NewBrand == [count |-> 0, actionable |-> 0, cluster_ids |-> {}]

\* The brand statistics that count the actionable items only.
UpdateBrandActionableOnly(b, item) ==
    [ count |-> b.count + (IF item.is_actionable THEN 1 ELSE 0),
      actionable |-> b.actionable + (IF item.is_actionable THEN 1 ELSE 0),
      cluster_ids |-> b.cluster_ids \cup {item.out.cluster_id_coarse} ]

\* The update of the statistics of the brand of an item.
UpdateBrand(b, item) ==
    [ count |-> b.count + 1,
      actionable |-> b.actionable + (IF item.is_actionable THEN 1 ELSE 0),
      cluster_ids |-> b.cluster_ids \cup {item.out.cluster_id_coarse} ]

ClusterIds == DOMAIN t_clusters

\* display_label: the most common display key, or the fallback written from
\* the brand and the issue type (cluster_bucket3 is not set by the
\* clustering pass and is written as the empty string).
DisplayLabel(scr, c) ==
    IF c.cluster_key_llm_counts # <<>>
    THEN [key |-> MostCommon(c.cluster_key_llm_counts), fallback |-> ""]
    ELSE [key |-> NoText,
          fallback |-> IF scr = "v2" THEN c.brand \o "_" \o c.issue_type \o "_"
                       ELSE c.brand \o " | " \o c.issue_type]

SeverityKeys(c) ==
    SubSeq([k \in 1..Len(c.severity_counts) |-> c.severity_counts[k].key],
           1, Len(c.severity_counts))

\* The severity written for a cluster: cd["severity_max"], or in
\* stage3_final max(severity_counts.keys(), key=severity_order.get(x, 0)).
ReportedSeverity(scr, c) ==
    IF scr = "v2" THEN c.severity_max
    ELSE IF c.severity_counts # <<>> THEN FirstMax(SeverityKeys(c), SeverityRank)
    ELSE "none"

NotReported == [done |-> FALSE, clusters |-> <<>>, total_items |-> 0, sample |-> <<>>]

\* The items of the aggregator's input: four members of one cluster with the
\* four severities and two display keys, one without a key, and two members
\* of the cluster of another brand.
KeyA == TextOf(<<"login", "loop">>, FALSE)
KeyB == TextOf(<<"app">>, FALSE)
OtherBrand == [EnrichedBase EXCEPT !.canonical_brand = Absent]

AggLines(scr) ==
    { TornLine,
      ClusteredItem([EnrichedBase EXCEPT !.cluster_key = KeyA], "high", TRUE, scr),
      ClusteredItem([EnrichedBase EXCEPT !.cluster_key = KeyB], "low", FALSE, scr),
      ClusteredItem([EnrichedBase EXCEPT !.cluster_key = KeyB], "medium", TRUE, scr),
      ClusteredItem(EnrichedBase, "none", FALSE, scr),
      ClusteredItem([OtherBrand EXCEPT !.cluster_key = KeyA], "medium", FALSE, scr),
      ClusteredItem(OtherBrand, "low", TRUE, scr) }

TInit ==
    /\ t_script \in {"v2", "final"}
    /\ \E n \in 0..MaxStream :
          \E ls \in [1..n -> AggLines(t_script)] : t_lines = SubSeq(ls, 1, n)
    /\ t_read = 0
    /\ t_clusters = <<>>
    /\ t_report = NotReported
    /\ t_max = 0
    /\ t_total = 0
    /\ t_brands = <<>>
    /\ AtRest("aggregate")

\* A clustered file long enough for a cluster to outgrow its sample: items of
\* two clusters, in any interleaving.
SampleLines(scr) ==
    { ClusteredItem([EnrichedBase EXCEPT !.cluster_key = KeyA], "high", TRUE, scr),
      ClusteredItem(OtherBrand, "low", TRUE, scr) }

SampleInit ==
    /\ t_script \in {"v2", "final"}
    /\ \E n \in 0..MaxSampleStream :
          \E ls \in [1..n -> SampleLines(t_script)] : t_lines = SubSeq(ls, 1, n)
    /\ t_read = 0
    /\ t_clusters = <<>>
    /\ t_report = NotReported
    /\ t_max = 0
    /\ t_total = 0
    /\ t_brands = <<>>
    /\ AtRest("aggregate")

\* An item that parses and carries no cluster id.
Unclustered == [kind |-> "unclustered", is_actionable |-> TRUE]

\* A clustered file with items of two brands, two fine clusters of one coarse
\* cluster among them, an item without a cluster id and a line that does not
\* parse.
ConserveLines(scr) ==
    { TornLine, Unclustered,
      ClusteredItem([EnrichedBase EXCEPT !.cluster_key = KeyA], "high", TRUE, scr),
      ClusteredItem([EnrichedBase EXCEPT !.cluster_key = KeyB], "low", FALSE, scr),
      ClusteredItem(OtherBrand, "low", TRUE, scr) }

ConserveInit ==
    /\ t_script \in {"v2", "final"}
    /\ \E n \in 0..MaxStream :
          \E ls \in [1..n -> ConserveLines(t_script)] : t_lines = SubSeq(ls, 1, n)
    /\ t_read = 0
    /\ t_clusters = <<>>
    /\ t_report = NotReported
    /\ t_max = 0
    /\ t_total = 0
    /\ t_brands = <<>>
    /\ AtRest("aggregate")

\* The aggregator over a clustered file, with or without --max-items.
PrefixInit ==
    /\ t_script \in {"v2", "final"}
    /\ \E n \in 0..MaxStream :
          \E ls \in [1..n -> AggLines(t_script)] : t_lines = SubSeq(ls, 1, n)
    /\ t_read = 0
    /\ t_clusters = <<>>
    /\ t_report = NotReported
    /\ t_max \in 0..MaxStream
    /\ t_total = 0
    /\ t_brands = <<>>
    /\ AtRest("aggregate")

\* if args.max_items and total >= args.max_items: break
PrefixRead == t_max > 0 /\ t_total >= t_max

\* One turn of "for line in f": a line that does not parse is passed over,
\* an item updates the statistics of its cluster.
ReadLine ==
    /\ t_read < Len(t_lines)
    /\ ~PrefixRead
    /\ t_read' = t_read + 1
    /\ LET item == t_lines[t_read + 1]
       IN  IF item.kind = "bad"
           THEN UNCHANGED <<t_clusters, t_total, t_brands>>
           ELSE IF item.kind = "unclustered"
           THEN t_total' = t_total + 1 /\ UNCHANGED <<t_clusters, t_brands>>
           ELSE LET cid == item.out.cluster_id_coarse
                    c == IF cid \in ClusterIds THEN t_clusters[cid] ELSE NewCluster
                    now == UpdateCluster(t_script, c, item, t_read + 1)
                    brand == item.out.brand_effective
                    b == IF brand \in DOMAIN t_brands THEN t_brands[brand] ELSE NewBrand
                IN  /\ t_total' = t_total + 1
                    /\ t_clusters' = [x \in ClusterIds \cup {cid} |->
                                          IF x = cid THEN now ELSE t_clusters[x]]
                    /\ t_brands' = [x \in DOMAIN t_brands \cup {brand} |->
                                        IF x = brand THEN UpdateBrand(b, item)
                                        ELSE t_brands[x]]
    /\ UNCHANGED <<t_script, t_lines, t_report, t_max>>
    /\ Untouched("aggregate")

\* The sample of actionable items holds at most this many lines.
ActionableLimit == 1000

\* enriched_sample.jsonl of stage3_final: the input file is read a second
\* time from its start, and the lines of the actionable items are written,
\* up to the limit; stage3_cluster_v2 writes no sample.
RECURSIVE ActionableUpTo(_, _)
ActionableUpTo(lines, n) ==
    IF n = 0 THEN <<>>
    ELSE LET before == ActionableUpTo(lines, n - 1)
         IN  IF /\ Len(before) < ActionableLimit
                /\ lines[n].kind # "bad"
                /\ lines[n].is_actionable
             THEN Append(before, n) ELSE before

ActionableSample(scr, lines) ==
    IF scr = "final" THEN ActionableUpTo(lines, Len(lines)) ELSE <<>>

\* After the loop: the display label and the reported severity of every
\* cluster (--top-n is not below the number of clusters).
Report ==
    /\ t_read = Len(t_lines) \/ PrefixRead
    /\ ~t_report.done
    /\ t_report' =
          [ done |-> TRUE,
            clusters |-> [cid \in ClusterIds |->
                [ display_label |-> DisplayLabel(t_script, t_clusters[cid]),
                  severity |-> ReportedSeverity(t_script, t_clusters[cid]) ]],
            total_items |-> t_total,
            sample |-> ActionableSample(t_script, t_lines) ]
    /\ UNCHANGED <<t_script, t_lines, t_read, t_clusters, t_max, t_total, t_brands>>
    /\ Untouched("aggregate")

TNext == ReadLine \/ Report

\* ------------------------------------------------------------- the cluster-size statistics
\* The bucket a cluster of s members is counted in.
BucketShifted(s) ==
    IF s = 1 THEN "1"
    ELSE IF s < 5 THEN "2-5"
    ELSE IF s < 10 THEN "6-10"
    ELSE IF s < 50 THEN "11-50"
    ELSE IF s < 100 THEN "51-100"
    ELSE "100+"

Bucket(s) ==
    IF s = 1 THEN "1"
    ELSE IF s <= 5 THEN "2-5"
    ELSE IF s <= 10 THEN "6-10"
    ELSE IF s <= 50 THEN "11-50"
    ELSE IF s <= 100 THEN "51-100"
    ELSE "100+"

\* size_distribution(sizes): a Counter of the buckets, in the order they were
\* first counted.
RECURSIVE SizeDistributionUpTo(_, _)
SizeDistributionUpTo(sizes, n) ==
    IF n = 0 THEN <<>>
    ELSE Incr(SizeDistributionUpTo(sizes, n - 1), Bucket(sizes[n]))

size_distribution(sizes) == SizeDistributionUpTo(sizes, Len(sizes))

\* sum(1 for s in sizes if s == 1)
Singletons(sizes) == Cardinality({i \in 1..Len(sizes) : sizes[i] = 1})

\* round(x / y, 2) in hundredths, for x, y the integers of the model: the
\* quotient nearest to 100 * x / y (no quotient of the model lies halfway
\* between two hundredths).
RoundedHundredths(x, y) == (2 * 100 * x + y) \div (2 * y)

\* round(100 * singleton_count / max(1, len(sizes)), 2), in hundredths of a
\* percent.
SingletonPct(sizes) ==
    RoundedHundredths(100 * Singletons(sizes), IF Len(sizes) < 1 THEN 1 ELSE Len(sizes))

\* The member counts at the edges of the buckets.
EdgeSizes == {1, 2, 5, 6, 10, 11, 50, 51, 100, 101}

NoStatistics == [done |-> FALSE]

\* The sizes of the clusters after the loop: every cluster has been counted
\* at least once.
HInit ==
    /\ \E n \in 0..MaxClusters :
          \E f \in [1..n -> EdgeSizes] : h_sizes = SubSeq(f, 1, n)
    /\ h_out = NoStatistics
    /\ AtRest("sizes")

\* The statistics written to the summary.
SizeStatistics ==
    /\ ~h_out.done
    /\ h_out' = [ done |-> TRUE,
                  total |-> Len(h_sizes),
                  singleton |-> Singletons(h_sizes),
                  singleton_pct |-> SingletonPct(h_sizes),
                  distribution |-> size_distribution(h_sizes) ]
    /\ UNCHANGED h_sizes
    /\ Untouched("sizes")

HNext == SizeStatistics

\* ------------------------------------------------------------- the pacing of the classifier calls
\* The main loop of a worker and process_batch_with_retry under a clock of
\* whole ticks: a classifier call takes between one tick and MaxLatency ticks,
\* time.sleep(t) takes t ticks, everything else takes no time.
Latencies == 1..MaxLatency

\* last_request = 0 before the loop: the first elapsed is the time since the
\* epoch, longer than any min_interval.
QInit ==
    /\ q_min_interval \in 0..MaxInterval
    /\ q_batches \in 1..MaxPaced
    /\ q_stack = <<>>
    /\ q_elapsed = MaxInterval
    /\ q_since_call = -1
    /\ q_gap = -1
    /\ AtRest("pacing")

\* if elapsed < min_interval: time.sleep(min_interval - elapsed)
PacingSleep(elapsed, min_interval) ==
    IF elapsed < min_interval THEN min_interval - elapsed ELSE 0

After(since, t) == IF since < 0 THEN since ELSE since + t

\* One turn of the main loop up to the call of process_batch_with_retry:
\* the rate limiting, last_request = time.time(), and the batch handed over.
PacedBatch ==
    /\ q_stack = <<>>
    /\ q_batches > 0
    /\ q_batches' = q_batches - 1
    /\ \E size \in 1..BatchSize :
          q_stack' = <<[size |-> size, attempt |-> 0]>>
    /\ q_since_call' = After(q_since_call, PacingSleep(q_elapsed, q_min_interval))
    /\ q_elapsed' = 0
    /\ UNCHANGED <<q_min_interval, q_gap>>
    /\ Untouched("pacing")

QTop == q_stack[Len(q_stack)]
QBelow == SubSeq(q_stack, 1, Len(q_stack) - 1)

\* One turn of the retry loop of process_batch_with_retry: the classifier
\* call starts at once and takes d ticks; its response is accepted (the call
\* of process_batch_with_retry returns) or not (the next turn).
PacedAttempt ==
    /\ q_stack # <<>>
    /\ QTop.attempt < MaxRetries
    /\ \E d \in Latencies, accepted \in BOOLEAN :
          /\ q_gap' = q_since_call
          /\ q_since_call' = d
          /\ q_elapsed' = q_elapsed + d
          /\ q_stack' = IF accepted THEN QBelow
                        ELSE QBelow \o <<[QTop EXCEPT !.attempt = @ + 1]>>
    /\ UNCHANGED <<q_min_interval, q_batches>>
    /\ Untouched("pacing")

\* The retry loop is used up: the calls for items[:mid] and items[mid:]
\* follow, or nothing for a single item.
PacedSplit ==
    /\ q_stack # <<>>
    /\ QTop.attempt = MaxRetries
    /\ q_stack' =
          IF QTop.size > 1
          THEN LET mid == QTop.size \div 2
               IN  QBelow \o <<[size |-> QTop.size - mid, attempt |-> 0],
                               [size |-> mid, attempt |-> 0]>>
          ELSE QBelow
    /\ UNCHANGED <<q_min_interval, q_batches, q_elapsed, q_since_call, q_gap>>
    /\ Untouched("pacing")

QNext == PacedBatch \/ PacedAttempt \/ PacedSplit

\* ------------------------------------------------------------- specifications
\* The workers: runs, terminations and restarts over one input log.
Spec == WInit /\ [][WNext]_vars

\* The workers of stage2_sharded, also over a shard that holds a stale record.
ShardedSpec == ShardedInit /\ [][WNext]_vars

\* The partition scan of every worker on its first start.
PartitionSpec == WInit /\ [][PartitionNext]_vars

\* One call of process_batch_with_retry on a batch, step by step.
BatchSpec == BInit /\ [][BNext]_vars

\* The same under weak fairness: a call that can take a step takes one
\* (every classifier call returns).
BatchFairSpec == BatchSpec /\ WF_vars(BNext)

\* One answer of the classifier parsed, wrapped, validated and normalised.
ParseSpec == PInit /\ [][PNext]_vars

\* One invocation of call_gemini_batch, request by request.
CallSpec == KInit /\ [][KNext]_vars

\* validate_batch_response applied to one response.
ValidateSpec == VInit /\ [][VNext]_vars

\* normalize_result applied to one result.
NormalizeSpec == NInit /\ [][NNext]_vars

\* The clustering pass over the shards of all workers, and the aggregator
\* over its output.
StageSpec == SInit /\ [][SNext]_vars

\* The atom extraction applied to one text.
AtomSpec == AInit /\ [][ANext]_vars

\* get_brand_effective applied to one item.
BrandSpec == GInit /\ [][GNext]_vars

\* The clustering pass over two enriched items.
ClusterSpec == CInit /\ [][CNext]_vars

\* The aggregator over a clustered file of a few lines.
AggSpec == TInit /\ [][TNext]_vars

\* The aggregator over a clustered file of two clusters that outgrow their
\* samples.
SampleSpec == SampleInit /\ [][TNext]_vars

\* The aggregator over a clustered file with items that carry no cluster id.
ConserveSpec == ConserveInit /\ [][TNext]_vars

\* The aggregator over the first --max-items items of a clustered file.
PrefixSpec == PrefixInit /\ [][TNext]_vars

\* The classifier calls of one worker under its clock.
PaceSpec == QInit /\ [][QNext]_vars

\* The cluster-size statistics of a few clusters.
SizeSpec == HInit /\ [][HNext]_vars

\* stage2_postprocess_v2 over two items whose brands may hold the separator.
SigSpec == SigInit /\ [][CNext]_vars

\* ------------------------------------------------------------- claims on the workers
\* Every (worker, position) of a parseable shard record carrying id i.
RecordsOf(i) ==
    {wk \in UNION {{<<w, k>> : k \in 1..Len(shard[w])} : w \in Workers} :
        ParseableAt(shard[wk[1]], wk[2]) /\ shard[wk[1]][wk[2]].id = i}

\* C1: with unique item ids in the log and a fixed W, whatever runs, external
\* terminations and restarts the sharded workers go through, no id occurs in
\* more than one parseable record of all the shards together.
C1_AtMostOneRecordPerId ==
    (script = "sharded" /\ UniqueIds(log)) =>
        \A i \in 1..ForeignId : Cardinality(RecordsOf(i)) <= 1

\* C1 witness: a sharded worker was terminated while writing, restarted, and
\* wrote again the record of an id whose earlier text is in its shard.
C1_Witness ==
    /\ script = "sharded" /\ UniqueIds(log)
    /\ \E w \in Workers : \E k, m \in 1..Len(shard[w]) :
          /\ k < m
          /\ shard[w][k].id = shard[w][m].id
          /\ ParseableAt(shard[w], m)

\* The item lines worker wid owns by the rule line_index mod W = worker_id - 1.
OwnedLines(lg, tw, wid) ==
    {n \in 0..(Len(lg) - 1) : lg[n + 1].kind = "item" /\ n % tw = wid - 1}

\* C2: the scan of a worker that starts on an empty shard selects exactly the
\* item lines with line_index mod W = worker_id - 1; so every item line is
\* selected by exactly one worker of 1..W, and turning any line into a blank
\* or unparseable one changes the owner of no other line.
C2_PartitionByLineIndex ==
    /\ \A w \in 1..total_workers :
          (pc[w] = "running" /\ start_len[w] = 0) =>
              Range(all_items[w]) = OwnedLines(log, total_workers, w)
    /\ \A n \in 0..(Len(log) - 1) :
          log[n + 1].kind = "item" =>
              Cardinality({w \in 1..total_workers :
                  n \in Range(load_partition(log, total_workers, w, {}))}) = 1
    /\ \A j \in 1..Len(log), v \in {BlankLine, BadLine}, w \in 1..total_workers :
          Range(load_partition(ReplaceAt(log, j, v), total_workers, w, {}))
              = Range(load_partition(log, total_workers, w, {})) \ {j - 1}

\* C2 witness: two workers have scanned a log that has a blank line before
\* its items, and each holds an item.
C2_Witness ==
    /\ total_workers = 2
    /\ log[1].kind = "blank"
    /\ \A w \in 1..2 : pc[w] = "running" /\ all_items[w] # <<>>

\* C3 (as amended): a worker's shard never holds more distinct ids than its
\* partition has, and when the shard is honoured for skipping (always in the
\* sharded worker, with --skip-existing in the batched one) a run that follows
\* a fully successful run appends nothing.
C3_ResumeIdempotent ==
    \A w \in Workers :
        /\ Cardinality(ParseableIds(shard[w])) <= Cardinality(PartitionIds(w))
        /\ (skip_existing /\ prev_full[w]) => Len(shard[w]) = start_len[w]

\* C3 as stated, without the condition on skipping.
C3_Original ==
    \A w \in Workers :
        /\ Cardinality(ParseableIds(shard[w])) <= Cardinality(PartitionIds(w))
        /\ prev_full[w] => Len(shard[w]) = start_len[w]

\* C3 witness: a second run has completed after a fully successful one.
C3_Witness ==
    \E w \in Workers :
        skip_existing /\ prev_full[w] /\ pc[w] = "done" /\ shard[w] # <<>>

\* C8: after startup no input item and no classifier response makes a worker
\* process abort.
C8_NoAbortAfterStartup == \A w \in Workers : pc[w] # "aborted"

\* C9: a run that ends of its own accord has submitted every item it still
\* had to process: a failing batch does not keep the later ones from being
\* processed.
C9_EndedRunSubmittedAll ==
    \A w \in Workers :
        pc[w] \in {"done", "aborted"} => Range(all_items[w]) \subseteq submitted[w]

\* What does hold: a run that reaches "Complete" has submitted every item.
CompletedRunSubmittedAll ==
    \A w \in Workers : pc[w] = "done" => Range(all_items[w]) \subseteq submitted[w]

\* The state worker w keeps in memory and on disk.
Local(w) == <<pc[w], existing_ids[w], all_items[w], pos[w], submitted[w], shard[w]>>

\* C14: workers share no mutable state.  A step changes the memory and the
\* shard of one worker at most, a shard changes only in a step of the running
\* worker that owns it, and a starting worker takes its skip set from its own
\* shard and its items from its own partition: nothing a worker holds or
\* writes comes from another worker's shard or progress.
C14_WorkersShareNothing ==
    [][ /\ \A w, v \in Workers : (Local(w)' # Local(w) /\ Local(v)' # Local(v)) => w = v
        /\ \A w \in Workers :
              /\ shard'[w] # shard[w] => pc[w] = "running"
              /\ (pc[w] # "running" /\ pc'[w] = "running") =>
                    /\ existing_ids'[w] =
                          (IF skip_existing THEN ParseableIds(shard[w]) ELSE {})
                    /\ Range(all_items'[w]) =
                          {n \in PartitionLines(w) :
                              ItemId(log, n) \notin existing_ids'[w]}
              /\ submitted'[w] \subseteq PartitionLines(w) ]_vars

\* Two workers have both written their shards, and the second runs with a
\* skip set that holds none of the ids of the first one's shard.
C14_Witness ==
    /\ total_workers = 2 /\ skip_existing
    /\ shard[1] # <<>> /\ shard[2] # <<>>
    /\ pc[2] = "running" /\ start_len[2] = 0
    /\ ParseableIds(shard[1]) \cap PartitionIds(1) # {}
    /\ existing_ids[2] = {}

\* Sequence a is the beginning of sequence b.
IsPrefix(a, b) == Len(a) <= Len(b) /\ SubSeq(b, 1, Len(a)) = a

\* C18: a worker run never removes or rewrites existing shard content: in
\* every step each shard as it was is a prefix of the shard as it becomes
\* (so the shard before a run is a prefix of the shard after it), also when
\* the shard holds an id that matches no input item.
C18_ShardOnlyAppended ==
    [][\A w \in Workers : IsPrefix(shard[w], shard'[w])]_vars

\* A run of worker 1 that started on a shard holding a stale record has
\* ended after appending to it.
C18_Witness ==
    /\ pc[1] = "done"
    /\ start_len[1] >= 1
    /\ Len(shard[1]) > start_len[1]
    /\ shard[1][1] = Chunk(ForeignId, TRUE, TRUE)
    /\ \A n \in 0..(Len(log) - 1) : ItemId(log, n) # ForeignId

\* The shard of worker w as it was when the current run of w started.
ShardAtStart(w) == SubSeq(shard[w], 1, start_len[w])

\* C19: during a run that skips existing ids (every run of stage2_sharded)
\* the classifier is never called with an item whose id was in a parseable
\* record of this worker's shard when the run started.
C19_NoCallForRecordedId ==
    skip_existing =>
        \A w \in Workers : \A n \in submitted[w] :
            ItemId(log, n) \notin ParseableIds(ShardAtStart(w))

\* A run of stage2_sharded that found an id of its partition in a parseable
\* record of its shard has called the classifier with another item.
C19_Witness ==
    /\ script = "sharded"
    /\ \E w \in Workers :
          /\ ParseableIds(ShardAtStart(w)) \cap PartitionIds(w) # {}
          /\ submitted[w] # {}

\* ------------------------------------------------------------- claims on the batch client
\* C4 (as amended): process_batch_with_retry returns at most len(items)
\* results and every returned result carries the id of an item of the batch;
\* when the ids of the batch's items are pairwise distinct, no id appears in
\* more than one returned result.
C4_ResultsMatchBatch ==
    b_out.kind = "returned" =>
        /\ Len(b_out.results) <= Len(b_ids)
        /\ Range(b_out.results) \subseteq Range(b_ids)
        /\ (Distinct(b_ids) => Distinct(b_out.results))

\* C4 as stated, for any batch.
C4_Original ==
    b_out.kind = "returned" =>
        /\ Len(b_out.results) <= Len(b_ids)
        /\ Range(b_out.results) \subseteq Range(b_ids)
        /\ Distinct(b_out.results)

\* C4 witness: a batch of three distinct ids went through a split and came
\* back with two results.
C4_Witness ==
    /\ b_poison = 0 /\ Len(b_ids) = 3 /\ Distinct(b_ids)
    /\ b_out.kind = "returned" /\ Len(b_out.results) = 2

\* The ids of the results of a response, id-less members counted as NoId and
\* members that are no objects as nothing.
ResultIdSet(resp) ==
    {resp.elems[k].id : k \in {j \in 1..Len(resp.elems) : resp.elems[j].kind = "obj"}}

C36_ValidatorsAgree ==
    v_verdict # "unset" =>
        /\ validate_batch_response_sharded(v_resp, v_ids)
               = validate_batch_response_batched(v_resp, v_ids)
        /\ v_verdict # "raise"

\* The two agree, and neither raises, on every response whose results are an
\* array when the input ids are pairwise distinct.
ValidatorsAgreeOnArraysForDistinctIds ==
    (v_verdict # "unset" /\ v_resp.shape = "array" /\ Distinct(v_ids)) =>
        /\ validate_batch_response_sharded(v_resp, v_ids)
               = validate_batch_response_batched(v_resp, v_ids)
        /\ v_verdict # "raise"

\* The least d with 2^d >= n.
RECURSIVE CeilLog2(_)
CeilLog2(n) == IF n <= 1 THEN 0 ELSE 1 + CeilLog2((n + 1) \div 2)

\* The recursion depth of the innermost call: the frames above the first.
SplitDepth == IF b_stack = <<>> THEN 0 ELSE Len(b_stack) - 1

\* C6: process_batch_with_retry on a non-empty batch ends, whatever the
\* classifier answers, with an output list of length 0..len(items), and never
\* recurses deeper than ceil(log2(len(items))).
C6_EndsWithBoundedOutput ==
    /\ SplitDepth <= CeilLog2(Len(b_ids))
    /\ b_out # Running =>
          b_out.kind = "returned" /\ Len(b_out.results) <= Len(b_ids)

\* What does hold of C6: the depth bound, the length bound on a list that is
\* returned, the drop of a single item whose retries are used up, and (under
\* BatchFairSpec) the end of every call.
SplitDepthBounded == SplitDepth <= CeilLog2(Len(b_ids))

ReturnedLengthBounded == b_out.kind = "returned" => Len(b_out.results) <= Len(b_ids)

SingletonNotRetried ==
    [][(b_stack # <<>> /\ Top.phase = "try" /\ Top.attempt = MaxRetries
            /\ Len(Top.items) = 1)
        => (Len(b_stack') < Len(b_stack)
               \/ (b_stack' # <<>> /\ b_stack'[Len(b_stack')].attempt = 0))]_vars

CallEnds == <>(b_out # Running)

\* The step-by-step call ends in nothing the summary of the call leaves out.
MachineWithinSummary ==
    b_out # Running => b_out \in process_batch_with_retry(b_script, b_ids, MaxRetries)

\* C7: with exactly one poison item in the batch, process_batch_with_retry
\* returns a result for every other item and none for the poison item.
C7_PoisonIsolated ==
    (b_poison # 0 /\ b_out # Running) =>
        /\ b_out.kind = "returned"
        /\ Len(b_out.results) = Len(b_ids) - 1
        /\ \A k \in 1..Len(b_ids) :
              k # b_poison => b_ids[k] \in Range(b_out.results)
        /\ (\A k \in 1..Len(b_ids) : k # b_poison => b_ids[k] # b_ids[b_poison])
              => b_ids[b_poison] \notin Range(b_out.results)

\* C7 witness: the third of four items was poison and the call returned the
\* other three.
C7_Witness ==
    /\ Len(b_ids) = 4 /\ b_poison = 3 /\ Distinct(b_ids)
    /\ b_out.kind = "returned" /\ Range(b_out.results) = {b_ids[1], b_ids[2], b_ids[4]}

\* A request is about to be made: the innermost call is in its retry loop
\* with turns left.
RequestPending == b_out = Running /\ Top.phase = "try" /\ Top.attempt < MaxRetries

\* C21 as stated: a batch whose response fails validation (count or id
\* mismatch) is not submitted again unchanged; the next request made for
\* those items covers one half of the batch.
C21_Original ==
    (b_last.verdict = "mismatch" /\ RequestPending) =>
        /\ Top.items # b_last.items
        /\ Len(b_last.items) > 1 => Top.items = LeftHalf(b_last.items)

\* C21 (as amended): a batch whose response fails validation (count or id
\* mismatch) is submitted again unchanged while turns of its retry loop are
\* left; once the max_retries turns are used up, the next request made for
\* those items covers the first half of the batch, items[:len(items) // 2].
C21_MismatchedBatchHalvedAfterRetries ==
    (b_last.verdict = "mismatch" /\ RequestPending) =>
        IF Top.items = b_last.items THEN Top.attempt \in 1..(MaxRetries - 1)
        ELSE /\ Top.attempt = 0
             /\ Len(b_last.items) > 1 =>
                   Top.items = SubSeq(b_last.items, 1, Len(b_last.items) \div 2)

\* C21 witness: a batch of four items was rejected for a mismatch in the last
\* turn of its loop, and the request about to be made covers its first two.
C21_Witness ==
    /\ b_last.verdict = "mismatch" /\ RequestPending
    /\ Len(b_last.items) = 4 /\ Top.items = <<1, 2>> /\ Top.attempt = 0

\* ------------------------------------------------------------- claims on the parsed answer
\* The turn on the answer that has results as its "results" value.
TurnOnResults(results) == attempt(p_script, results, p_ids).kind

\* A shape other than a bare array and a single object without "results": a
\* scalar, null, "results" that is no array, or an array in which a member is
\* no object or has no id.
OtherShape ==
    \/ p_parsed.kind \in {"scalar", "null"}
    \/ p_parsed.kind = "object" /\ p_parsed.results.shape # "array"
    \/ /\ WrapResult(p_parsed).shape = "array"
       /\ \E k \in 1..Len(WrapResult(p_parsed).elems) :
             \/ WrapResult(p_parsed).elems[k].kind # "obj"
             \/ WrapResult(p_parsed).elems[k].id = NoId

\* C20: a parsed answer that is a bare array is treated as an object whose
\* results field is that array, a single object without a results field as a
\* one-element results array, and every other shape (scalar, null, results
\* that is no array, a member that is no object or has no id) ends in a
\* validation failure: never in an accepted batch, never in an exception.
C20_BareShapesWrappedOthersRejected ==
    p_out # "unset" =>
        /\ p_parsed.kind = "array" => p_out = TurnOnResults(ArrayResults(p_parsed.elems))
        /\ p_parsed.kind = "single"
              => p_out = TurnOnResults(ArrayResults(<<p_parsed.elem>>))
        /\ OtherShape => p_out = "next"

\* What does hold: the claim for stage2_batched.
WrappedOrRejectedBatched ==
    p_script = "batched" => C20_BareShapesWrappedOthersRejected

\* In stage2_sharded the other shapes are never accepted as long as the ids
\* of the request are distinct, but two of them raise.
OtherShapeNotAcceptedSharded ==
    (p_script = "sharded" /\ p_out # "unset" /\ OtherShape /\ Distinct(p_ids))
        => /\ p_out # "returned"
           /\ p_out = "raised" <=> WrapResult(p_parsed).shape \in {"null", "number"}

\* ------------------------------------------------------------- claims on call_gemini_batch
\* The responses with status 200 that lack what the client reads from them.
Malformed == {"badbody", "nocandidates", "badstruct", "badtext", "scalar"}

\* Request i was followed by another one.
Retried(i) == i < Len(k_log)

\* At most max_retries requests, each taking one turn of the loop; a 429 in
\* turn attempt is followed by a sleep of 2^attempt seconds plus the jitter;
\* with the turns used up the call has returned None or is about to.
BudgetAndBackoff ==
    /\ Len(k_log) <= k_max
    /\ k_attempt = Len(k_log)
    /\ \A i \in 1..Len(k_log) :
          k_log[i].resp = "429" => k_log[i].slept = Sleep(Pow2(i - 1), TRUE)
    /\ (k_out # "running" /\ k_log[Len(k_log)].resp # "ok") => k_out = "none"
    /\ (k_attempt = k_max /\ k_log[Len(k_log)].resp # "ok") => ~ENABLED Request

\* C22: one invocation of call_gemini_batch issues at most max_retries
\* requests; a 429 consumes one attempt of that budget and is followed by a
\* wait of 2^attempt seconds plus a jitter below one second; every retry
\* after a non-200 or malformed response is preceded by the fixed delay; with
\* the budget used up the call reports failure instead of retrying further.
C22_BudgetBackoffFixedDelay ==
    /\ BudgetAndBackoff
    /\ \A i \in 1..Len(k_log) :
          (Retried(i) /\ k_log[i].resp \in Malformed \cup {"non200"})
              => k_log[i].slept = Sleep(FixedDelay, FALSE)

\* What does hold: the claim for every response but the one without
\* candidates, after which the next request follows at once.
FixedDelayUnlessNoCandidates ==
    /\ BudgetAndBackoff
    /\ \A i \in 1..Len(k_log) :
          (Retried(i) /\ k_log[i].resp \in Malformed \cup {"non200"})
              => k_log[i].slept =
                    IF k_log[i].resp = "nocandidates" THEN NoSleep
                    ELSE Sleep(FixedDelay, FALSE)

\* A response without candidates was followed by a second request with no
\* sleep in between, and that one was rate-limited in turn.
RetriedAtOnce ==
    /\ Len(k_log) = 2
    /\ k_log[1] = [resp |-> "nocandidates", slept |-> NoSleep]
    /\ k_log[2] = [resp |-> "429", slept |-> Sleep(2, TRUE)]

\* ------------------------------------------------------------- claims on the normalizer
\* C10: for a raw issue_type and a raw severity each a string (the empty one
\* included), null or absent, normalize_result does not raise and yields an
\* issue_type among the 11 canonical ones and a severity among none, low,
\* medium, high; neither is empty.
C10_NormalizerTotal ==
    (/\ n_out # NotCalled
     /\ n_result.issue_type.kind \in {"str", "null", "absent"}
     /\ n_result.severity.kind \in {"str", "null", "absent"}) =>
        /\ ~n_out.raised
        /\ n_out.issue_type \in
              {"bug", "outage", "ux", "account", "billing", "policy", "security",
               "performance", "feature_request", "other", "not_applicable"}
        /\ n_out.severity \in {"none", "low", "medium", "high"}
        /\ n_out.issue_type # "" /\ n_out.severity # ""

\* C10 witness: an issue_type no table knows, in capitals and padded, with a
\* null severity, came out as "other" and "none".
C10_Witness ==
    /\ n_result.issue_type = Value("str", UnknownWord, TRUE, TRUE)
    /\ n_result.severity.kind = "null"
    /\ ~n_out.raised /\ n_out.issue_type = "other" /\ n_out.severity = "none"

\* normalize_result was called on a result whose two fields are strings,
\* null or absent.
NormalizedPlain ==
    /\ n_out # NotCalled
    /\ n_result.issue_type.kind \in {"str", "null", "absent"}
    /\ n_result.severity.kind \in {"str", "null", "absent"}

\* The raw value is empty (a string of length 0), null or absent.
EmptyOrNull(v) == v.kind \in {"null", "absent"} \/ v = Text("")

\* The lowercased, trimmed text of a raw string.
Trimmed(v) == [v EXCEPT !.caps = FALSE, !.pad = FALSE].word

\* The issue_type the three-way rule gives a raw string.
IssueRule(v) ==
    IF Trimmed(v) \in DOMAIN ISSUE_TYPE_MAPPINGS THEN ISSUE_TYPE_MAPPINGS[Trimmed(v)]
    ELSE IF Trimmed(v) \in Range(CANONICAL_ISSUE_TYPES) THEN Trimmed(v)
    ELSE "other"

\* The issue_type part of C23.
IssueTypeByRule ==
    /\ n_result.issue_type.kind = "str" => n_out.issue_type = IssueRule(n_result.issue_type)
    /\ EmptyOrNull(n_result.issue_type) => n_out.issue_type = "other"
    /\ \A key \in DOMAIN ISSUE_TYPE_MAPPINGS :
          ISSUE_TYPE_MAPPINGS[key] \in Range(CANONICAL_ISSUE_TYPES)

\* C23 as stated: the issue_type follows the three-way rule on the
\* lowercased, trimmed raw value, an empty or null raw value yields other,
\* and raw_issue_type keeps the untouched raw value.
C23_Original ==
    NormalizedPlain =>
        /\ IssueTypeByRule
        /\ n_out.raw_issue_type = n_result.issue_type

\* C23 (as amended): the issue_type follows the three-way rule (synonym
\* table, then the 11 canonical values, then other) on the lowercased,
\* trimmed raw value; an empty or null raw value yields other; raw_issue_type
\* keeps the untouched raw value when that is a non-empty string and holds
\* "other" when the raw value is empty, null or absent.
C23_IssueTypeRuleAndRawKept ==
    NormalizedPlain =>
        /\ IssueTypeByRule
        /\ n_out.raw_issue_type =
              IF EmptyOrNull(n_result.issue_type) THEN Text("other")
              ELSE n_result.issue_type

\* C23 witness: "Hardware" in capitals and padded came out as bug with the
\* raw text kept as it was.
C23_Witness ==
    /\ n_result.issue_type = Value("str", "hardware", TRUE, TRUE)
    /\ ~n_out.raised /\ n_out.issue_type = "bug"
    /\ n_out.raw_issue_type = Value("str", "hardware", TRUE, TRUE)

\* The severity the three-way rule gives a raw string.
SeverityRule(v) ==
    IF Trimmed(v) \in DOMAIN SEVERITY_MAPPINGS THEN SEVERITY_MAPPINGS[Trimmed(v)]
    ELSE IF Trimmed(v) \in Range(CANONICAL_SEVERITIES) THEN Trimmed(v)
    ELSE "medium"

\* C24: the severity is the synonym-table value of the lowercased, trimmed
\* raw severity if that is a key, the value itself if it is none, low, medium
\* or high, and medium for every other value: unknown words, the empty
\* string, a missing value.
C24_SeverityRuleFallbackMedium ==
    NormalizedPlain =>
        /\ n_result.severity.kind = "str" => n_out.severity = SeverityRule(n_result.severity)
        /\ EmptyOrNull(n_result.severity) => n_out.severity = "medium"

\* What does hold: the rule for every string of length > 0, and none for the
\* empty string and a missing value.
SeverityRuleMissingIsNone ==
    NormalizedPlain =>
        /\ (n_result.severity.kind = "str" /\ ~EmptyOrNull(n_result.severity))
              => n_out.severity = SeverityRule(n_result.severity)
        /\ EmptyOrNull(n_result.severity) => n_out.severity = "none"

\* A result without severity came out with severity none.
MissingSeverityIsNone ==
    /\ n_result.severity.kind = "absent" /\ n_result.issue_type = Text("bug")
    /\ ~n_out.raised /\ n_out.severity = "none"

\* C35: no key of a synonym table is a member of the canonical list of its
\* field, so the synonym table looked up first and the canonical list second,
\* as normalize_result does, gives what the canonical list looked up first and
\* the synonym table second gives, for every result.
CanonicalFirst(v, default, mappings, canonical, fallback) ==
    LET raw == GetOr(v, default)
    IN  IF raw.kind # "str" THEN [raised |-> TRUE, value |-> "", raw |-> raw]
        ELSE LET raw_lower == Strip(Lower(raw)).word
             IN  [raised |-> FALSE,
                  raw |-> raw,
                  value |-> IF raw_lower \in Range(canonical) THEN raw_lower
                            ELSE IF raw_lower \in DOMAIN mappings THEN mappings[raw_lower]
                            ELSE fallback]

CanonicalFirstResult(result) ==
    LET issue == CanonicalFirst(result.issue_type, "other", ISSUE_TYPE_MAPPINGS,
                                CANONICAL_ISSUE_TYPES, "other")
        severity == CanonicalFirst(result.severity, "none", SEVERITY_MAPPINGS,
                                   CANONICAL_SEVERITIES, "medium")
    IN  [raised |-> issue.raised \/ severity.raised,
         issue_type |-> issue.value,
         severity |-> severity.value,
         raw_issue_type |-> issue.raw]

C35_LookupOrderIrrelevant ==
    /\ DOMAIN ISSUE_TYPE_MAPPINGS \cap Range(CANONICAL_ISSUE_TYPES) = {}
    /\ DOMAIN SEVERITY_MAPPINGS \cap Range(CANONICAL_SEVERITIES) = {}
    /\ n_out # NotCalled => n_out = CanonicalFirstResult(n_result)

C35_Witness ==
    /\ n_result.issue_type = Value("str", "hardware", TRUE, TRUE)
    /\ n_result.severity = Text("low")
    /\ n_out # NotCalled
    /\ ~n_out.raised /\ n_out.issue_type = "bug" /\ n_out.severity = "low"

\* ------------------------------------------------------------- claims on the clustering pass
\* The atoms whose trigger the source text of item k holds.
MatchedAtoms(k) ==
    LET text == get_source_text(c_items[k], c_script)
    IN {ATOM_LOOKUP[j].atom : j \in {i \in 1..Len(ATOM_LOOKUP) :
            Contains(LowerText(text), ATOM_LOOKUP[i].trigger)}}

\* The texts "atoms" may be for item k: "generic" when no atom matched, else
\* one or two matched atoms in alphabetical order with "_" between them.
CoarseAtomTexts(k) ==
    IF MatchedAtoms(k) = {} THEN {"generic"}
    ELSE {Join(SortedAtoms(S), Cardinality(S), "_") :
            S \in {T \in SUBSET MatchedAtoms(k) : Cardinality(T) \in 1..2}}

\* C11: in stage2_postprocess_v2 the cluster_id_coarse of an item is the SHA-1
\* digest of the text brand_effective|issue_type|atoms, atoms being "generic"
\* or at most two matched atoms, sorted and joined; so two items with equal
\* brand_effective, issue_type and atoms have the same cluster_id_coarse.
C11_CoarseIdFromBrandIssueAtoms ==
    c_script = "v2" =>
        /\ \A k \in 1..Len(c_out) :
              /\ c_out[k].cluster_atoms_coarse \in CoarseAtomTexts(k)
              /\ c_out[k].cluster_id_coarse =
                    compute_sha1(c_out[k].brand_effective \o "|" \o c_out[k].issue_type
                                    \o "|" \o c_out[k].cluster_atoms_coarse)
        /\ (Len(c_out) = 2
              /\ c_out[1].brand_effective = c_out[2].brand_effective
              /\ c_out[1].issue_type = c_out[2].issue_type
              /\ c_out[1].cluster_atoms_coarse = c_out[2].cluster_atoms_coarse)
           => c_out[1].cluster_id_coarse = c_out[2].cluster_id_coarse

\* Two items with different titles, display keys and issue_type fields, yet
\* the same brand_effective, issue type and (matched) atoms, both processed.
C11_Witness ==
    /\ c_script = "v2" /\ Len(c_out) = 2
    /\ c_items[1].title # c_items[2].title
    /\ c_items[1].cluster_key # c_items[2].cluster_key
    /\ c_items[1].issue_type # c_items[2].issue_type
    /\ c_out[1].brand_effective = c_out[2].brand_effective
    /\ c_out[1].issue_type = c_out[2].issue_type
    /\ c_out[1].cluster_atoms_coarse = c_out[2].cluster_atoms_coarse
    /\ c_out[1].cluster_atoms_coarse # "generic"
    /\ c_out[1].cluster_id_coarse = c_out[2].cluster_id_coarse

\* C12: fine clusters subdivide coarse clusters: two items of the two-tier
\* clustering (stage2_postprocess_v2) with equal cluster_signature_fine have
\* equal cluster_signature_coarse, and with equal cluster_id_fine equal
\* cluster_id_coarse.
C12_FineSubdividesCoarse ==
    (c_script = "v2" /\ Len(c_out) = 2) =>
        /\ c_out[1].cluster_signature_fine = c_out[2].cluster_signature_fine
              => c_out[1].cluster_signature_coarse = c_out[2].cluster_signature_coarse
        /\ c_out[1].cluster_id_fine = c_out[2].cluster_id_fine
              => c_out[1].cluster_id_coarse = c_out[2].cluster_id_coarse

\* What does hold: with no more matched atoms than the coarse scan stops at
\* (twice two), the fine atoms fix the coarse atoms.
FineSubdividesCoarseBelowScanLimit ==
    (c_script = "v2" /\ Len(c_out) = 2
        /\ \A k \in 1..2 : Cardinality(MatchedAtoms(k)) < 2 * 2
        /\ c_out[1].cluster_signature_fine = c_out[2].cluster_signature_fine)
    => c_out[1].cluster_signature_coarse = c_out[2].cluster_signature_coarse

\* The two items are the same but for the classifier's free text.
DifferOnlyInFreeText(a, b) ==
    [a EXCEPT !.cluster_key = NoText, !.summary = NoText]
        = [b EXCEPT !.cluster_key = NoText, !.summary = NoText]

\* C13: two enriched items that differ only in the classifier's free-text
\* fields (cluster_key, summary) get the same cluster_id_coarse, in both
\* clustering scripts.
C13_FreeTextNotInIdentity ==
    (Len(c_out) = 2 /\ DifferOnlyInFreeText(c_items[1], c_items[2]))
        => c_out[1].cluster_id_coarse = c_out[2].cluster_id_coarse

\* What does hold: stage2_final keeps the free text out of the identity, and
\* so does stage2_postprocess_v2 for items whose summaries are equal.
FreeTextNotInIdentityFinal ==
    (Len(c_out) = 2 /\ DifferOnlyInFreeText(c_items[1], c_items[2])
        /\ (c_script = "final" \/ c_items[1].summary = c_items[2].summary))
    => c_out[1].cluster_id_coarse = c_out[2].cluster_id_coarse

\* The atoms extract_atoms(source_text, max_atoms=2) gives item k.
CoarseAtoms(k) == extract_atoms(get_source_text_v2(c_items[k]), 2)

\* C26: the coarse signature is injective in its three inputs: two items that
\* differ in brand_effective, in issue_type or in the extracted coarse atoms
\* always get different cluster_signature_coarse strings.
C26_CoarseSignatureInjective ==
    (c_script = "v2" /\ Len(c_out) = 2) =>
        (c_out[1].cluster_signature_coarse = c_out[2].cluster_signature_coarse
            => /\ c_out[1].brand_effective = c_out[2].brand_effective
               /\ c_out[1].issue_type = c_out[2].issue_type
               /\ CoarseAtoms(1) = CoarseAtoms(2))

\* C26 witness: the brand "acme|bug" with issue type other and the brand
\* "acme" with issue type bug, over summaries with the atoms app, password
\* and password alone, came out with different coarse signatures.
C26_Witness ==
    /\ Len(c_out) = 2
    /\ c_out[1].brand_effective = "acme|bug" /\ c_out[1].issue_type = "other"
    /\ c_out[2].brand_effective = "acme" /\ c_out[2].issue_type = "bug"
    /\ CoarseAtoms(1) = <<"app", "password">> /\ CoarseAtoms(2) = <<"password">>
    /\ c_out[1].cluster_signature_coarse = "acme|bug|other|app_password"
    /\ c_out[2].cluster_signature_coarse = "acme|bug|password"

\* C38: process_item applied to a record it has produced leaves
\* cluster_id_coarse, cluster_id_fine and brand_effective as they are.
\* The record process_item returns has no cluster_key any more (del
\* item['cluster_key']); its other input fields are as they were.
Produced(item) == [item EXCEPT !.cluster_key = NoText]

Reprocessed(k) == process_item(Produced(c_items[k]), c_script)

C38_ProcessItemIdempotent ==
    \A k \in 1..Len(c_out) :
        /\ Reprocessed(k).cluster_id_coarse = c_out[k].cluster_id_coarse
        /\ Reprocessed(k).brand_effective = c_out[k].brand_effective
        /\ c_script = "v2" => Reprocessed(k).cluster_id_fine = c_out[k].cluster_id_fine

\* The coarse id and the brand are left as they are.
CoarseIdAndBrandIdempotent ==
    \A k \in 1..Len(c_out) :
        /\ Reprocessed(k).cluster_id_coarse = c_out[k].cluster_id_coarse
        /\ Reprocessed(k).brand_effective = c_out[k].brand_effective

\* ------------------------------------------------------------- claims on brand_effective
\* Rule 1: the classifier's canonical_brand, a string that is not empty and
\* not one of the sentinels unknown, null, none in any capitalisation.
Rule1Matches ==
    /\ g_item.canonical_brand.kind = "str"
    /\ g_item.canonical_brand # Text("")
    /\ ~(~g_item.canonical_brand.pad
           /\ g_item.canonical_brand.word \in {"unknown", "null", "none", ""})

\* Rule 2 as the specification words it: the url has a registrable domain
\* and the denylist does not name it.
Rule2Matches ==
    /\ extract_registrable_domain(g_item.url) # NoDomain
    /\ extract_registrable_domain(g_item.url) \notin DomainDenylist(g_script)

\* Rule 2 as amended: the domain is, besides, longer than two characters.
Rule2MatchesLong ==
    Rule2Matches /\ Len(extract_registrable_domain(g_item.url)) > 2

\* Rule 3: the subreddit, in lower case, is in the brand table.
Rule3Matches ==
    /\ g_item.subreddit.kind = "str" /\ ~g_item.subreddit.pad
    /\ g_item.subreddit.word \in BRAND_SUBREDDITS(g_script)

Rule3Value ==
    IF g_item.subreddit.word \in DOMAIN SUBREDDIT_TO_BRAND(g_script)
    THEN SUBREDDIT_TO_BRAND(g_script)[g_item.subreddit.word]
    ELSE g_item.subreddit.word

\* Rule 4: there is an upstream brand hint.
Rule4Matches == g_item.original_brand_hints # <<>> \/ g_item.brand_hints # <<>>

Rule4Value ==
    IF g_item.original_brand_hints # <<>> THEN g_item.original_brand_hints[1].word
    ELSE g_item.brand_hints[1].word

\* The value of the first rule that matches, rule 2 being matches2.
FirstMatch(matches2) ==
    IF Rule1Matches
    THEN [g_item.canonical_brand EXCEPT !.caps = FALSE]
    ELSE IF matches2 THEN Text(extract_registrable_domain(g_item.url))
    ELSE IF Rule3Matches THEN Text(Rule3Value)
    ELSE IF Rule4Matches THEN Text(Rule4Value)
    ELSE Text("unknown")

\* C15, as stated: get_brand_effective returns the value of the first rule
\* that matches among (1) canonical_brand unless a sentinel, (2) registrable
\* domain of the url unless on the denylist, (3) subreddit brand table through
\* the alias map, (4) first brand hint, (5) "unknown".
C15_Original == g_out # Absent => g_out = FirstMatch(Rule2Matches)

\* C15, amended: the same with rule (2) matching only a registrable domain
\* longer than two characters that is not on the denylist; a later rule
\* never overrides an earlier match.
C15_FirstMatchingRuleWins == g_out # Absent => g_out = FirstMatch(Rule2MatchesLong)

\* Rules 2, 3 and 4 all match and rule 1 does not: the domain is returned.
C15_Witness ==
    /\ g_out # Absent
    /\ ~Rule1Matches /\ Rule2MatchesLong /\ Rule3Matches /\ Rule4Matches
    /\ g_out = Text(extract_registrable_domain(g_item.url))

\* ------------------------------------------------------------- claims on the atom extraction
\* The place of an atom in the alphabet of atoms.
AtomRank(a) == CHOOSE r \in 1..Len(AtomOrder) : AtomOrder[r] = a

\* Distinct atoms in ascending alphabetical order.
Ascending(atoms) ==
    \A i, j \in 1..Len(atoms) : i < j => AtomRank(atoms[i]) < AtomRank(atoms[j])

\* The function of the state applied to another text.
AtomsOf(text) ==
    IF a_fn = "extract_atoms" THEN extract_atoms(text, a_k) ELSE extract_issue_atoms(text)

\* The text with its first two phrases exchanged, and with its first phrase
\* moved to the end: every reordering is a succession of these.
SwapFirstTwo(text) ==
    IF Len(text.phrases) < 2 THEN text
    ELSE TextOf(<<text.phrases[2], text.phrases[1]>>
                    \o SubSeq(text.phrases, 3, Len(text.phrases)), text.caps)

Rotate(text) ==
    IF Len(text.phrases) < 2 THEN text
    ELSE TextOf(SubSeq(text.phrases, 2, Len(text.phrases)) \o <<text.phrases[1]>>,
                text.caps)

\* The part of C16 on the extraction itself: at most k atoms (extract_atoms),
\* distinct and ascending, found in the text, and the same for a reordered text.
AtomsSortedAndOrderIndependent ==
    a_out # NotExtracted =>
        /\ a_fn = "extract_atoms" => Len(a_out) <= a_k
        /\ Ascending(a_out)
        /\ \A i \in 1..Len(a_out) :
              \E j \in 1..Len(ATOM_LOOKUP) :
                  /\ ATOM_LOOKUP[j].atom = a_out[i]
                  /\ Contains(LowerText(a_text), ATOM_LOOKUP[j].trigger)
        /\ a_out = AtomsOf(SwapFirstTwo(a_text))
        /\ a_out = AtomsOf(Rotate(a_text))

\* C16: atom extraction with limit k returns at most k atoms, all distinct
\* and in ascending alphabetical order, the same list for two texts with the
\* same trigger phrases in a different order; and the issue_atoms list stored
\* on a clustered item (by stage2_final) has at most 4 entries.
C16_AtomsBoundedSortedStable ==
    /\ AtomsSortedAndOrderIndependent
    /\ (a_out # NotExtracted /\ a_fn = "extract_issue_atoms") => Len(a_out) <= 4

\* The atom the table gives a trigger.
AtomOf(trigger) ==
    LET k == CHOOSE j \in 1..Len(ATOM_LOOKUP) : ATOM_LOOKUP[j].trigger = trigger
    IN  ATOM_LOOKUP[k].atom

\* Every occurrence of the shorter trigger in the text lies inside an
\* occurrence of the longer one, which is matched.
CoveredBy(text, shorter, longer) ==
    /\ longer \in Range(text.phrases)
    /\ shorter \notin Range(text.phrases)

\* C25: trigger phrases are matched longest first so that there is no
\* partial-substring double counting: a span of text covered by a matched
\* longer trigger phrase does not also produce a match for a shorter trigger
\* phrase that is a substring of it.
C25_NoMatchInsideLongerTrigger ==
    a_out # NotExtracted =>
        \A pair \in Inside :
            (/\ CoveredBy(a_text, pair[1], pair[2])
             /\ AtomOf(pair[2]) \in Range(a_out))
                => AtomOf(pair[1]) \notin Range(a_out)

\* What does hold: the triggers are tried in descending order of length.
TriggersTriedLongestFirst ==
    \A i, j \in 1..Len(SortedTriggers) :
        i < j => Len(SortedTriggers[i].trigger) >= Len(SortedTriggers[j].trigger)

\* The text "taken down" alone came out with the atoms of both triggers.
MatchedInsideLongerTrigger ==
    /\ a_text = TextOf(<<"taken down">>, FALSE)
    /\ a_out = <<"moderation", "server">>

\* ------------------------------------------------------------- claims on the order of the shards
\* The clustered file the pass writes when it reads the shards in order p.
ClusteredInOrder(p) == ClusterFiles(s_lines, s_owner, p, MaxWorkers)

\* C17: for every order in which the worker shards are read, the clustering
\* stage emits the same records (the same set, each as often) and the
\* aggregator computes the same member counts and actionable counts per
\* coarse cluster, per fine cluster and per brand, and the same severity
\* maximum per cluster.
C17_ShardOrderIrrelevant ==
    s_agg # NotAggregated =>
        \A p \in Orders(MaxWorkers) :
            LET clustered == ClusteredInOrder(p)
                stats == process(clustered)
            IN /\ Range(clustered) = Range(s_out)
               /\ Len(clustered) = Len(s_out)
               /\ stats.coarse = s_agg.coarse
               /\ stats.fine = s_agg.fine
               /\ stats.brand = s_agg.brand

\* The aggregator has run on shards that, read in another order, give
\* another clustered file: a cluster has members of different severities in
\* two shards, and a shard holds a line that does not parse.
C17_Witness ==
    /\ s_agg # NotAggregated
    /\ \E p \in Orders(MaxWorkers) : ClusteredInOrder(p) # s_out
    /\ \E k \in 1..Len(s_lines) : s_lines[k].kind = "bad"
    /\ \E i, j \in 1..Len(s_out) :
          /\ i < j
          /\ s_out[i].out.cluster_id_coarse = s_out[j].out.cluster_id_coarse
          /\ SeverityRank(s_out[i].severity) > SeverityRank(s_out[j].severity)
          /\ s_owner[s_out[i].id] # s_owner[s_out[j].id]

\* ------------------------------------------------------------- claims on the lines of the input that do not parse
\* C33: an input line that does not parse is passed over without an error and
\* gives no item to process; all_items is what it would be if that line held
\* an item of another id, less that item: the line indices and the partition
\* of the other lines are the same.
AnotherId == NumIds + 1

WithItemAt(lg, line_num) ==
    SubSeq(lg, 1, line_num) \o <<Item(AnotherId)>> \o SubSeq(lg, line_num + 2, Len(lg))

LessLine(seq, x) == SelectSeq(seq, LAMBDA y : y # x)

BadLines(lg) == {n \in 0..(Len(lg) - 1) : lg[n + 1].kind = "bad"}

C33_BadLineSkippedOthersUnaffected ==
    \A w \in Workers :
        pc[w] = "running" =>
            /\ \A m \in Range(all_items[w]) :
                   log[m + 1].kind = "item" /\ m % total_workers = w - 1
            /\ \A n \in BadLines(log) :
                   all_items[w] =
                       LessLine(load_partition(WithItemAt(log, n), total_workers, w,
                                               existing_ids[w]), n)

C33_Witness ==
    /\ total_workers = 2
    /\ pc[1] = "running"
    /\ log[1].kind = "bad" /\ log[2].kind = "item" /\ log[3].kind = "item"
    /\ all_items[1] = <<2>>
    /\ load_partition(WithItemAt(log, 0), total_workers, 1, existing_ids[1]) = <<0, 2>>

\* C34: a line of the shard that cannot be parsed is ignored when the shard is
\* loaded, and the item it may have stood for counts as not yet processed: it
\* is in all_items again, and a run that completes has submitted it.
Unreadable(sh) == {k \in 1..Len(sh) : ~ParseableAt(sh, k)}

C34_UnreadableRecordProcessedAgain ==
    \A w \in Workers :
        pc[w] \in {"running", "done"} =>
            \A k \in Unreadable(ShardAtStart(w)) :
                ShardAtStart(w)[k].id \notin ParseableIds(ShardAtStart(w)) =>
                    \A n \in PartitionLines(w) :
                        ItemId(log, n) = ShardAtStart(w)[k].id =>
                            /\ n \in Range(all_items[w])
                            /\ pc[w] = "done" => n \in submitted[w]

C34_Witness ==
    \E w \in Workers :
        /\ pc[w] = "done"
        /\ \E k \in Unreadable(ShardAtStart(w)) :
              /\ ~ShardAtStart(w)[k].full
              /\ ShardAtStart(w)[k].id \notin ParseableIds(ShardAtStart(w))
              /\ \E n \in PartitionLines(w) :
                    /\ ItemId(log, n) = ShardAtStart(w)[k].id
                    /\ n \in submitted[w]

\* C37: every record a sharded worker appends to its shard carries the id of
\* an item of the batch just submitted, hence of an input line of its own
\* partition (line index mod W = worker_id - 1), and that id was on no record
\* of the shard when the run started.
Appended(w) == (Len(shard[w]) + 1)..Len(shard'[w])

C37_AppendedRecordsFromOwnBatch ==
    [][\A w \in Workers :
          \A k \in Appended(w) :
              /\ pc[w] = "running"
              /\ \E n \in Range(Batch(w)) :
                     /\ ItemId(log, n) = shard'[w][k].id
                     /\ log[n + 1].kind = "item"
                     /\ n % total_workers = w - 1
              /\ shard'[w][k].id \notin ParseableIds(ShardAtStart(w))]_vars

C37_Witness ==
    /\ total_workers = 2 /\ pc[2] = "running" /\ pc[1] = "done"
    /\ start_len[2] = 0 /\ Len(shard[2]) = 1 /\ shard[2][1].full
    /\ shard[2][1].id = ItemId(log, 1)
    /\ Len(shard[1]) = 2

\* ------------------------------------------------------------- claims on the pacing
\* C32: any two consecutive classifier calls of a worker (first attempts,
\* retries, calls for split halves) start at least 1/rps apart.
C32_ConsecutiveCallsPaced ==
    q_gap >= 0 => q_gap >= q_min_interval

\* A retry that starts one tick after the call before it, with 1/rps of three ticks.
RetryWithinInterval ==
    /\ q_min_interval = 3 /\ q_gap = 1
    /\ q_stack # <<>> /\ QTop.attempt = 2

\* ------------------------------------------------------------- claims on the aggregator
\* The lines of the clustered file that are members of cluster cid.
Members(cid) ==
    {k \in 1..Len(t_lines) :
        t_lines[k].kind = "item" /\ t_lines[k].out.cluster_id_coarse = cid}

\* The place of a severity in the order none < low < medium < high.
SeverityLevel(severity) ==
    CHOOSE i \in 1..Len(CANONICAL_SEVERITIES) : CANONICAL_SEVERITIES[i] = severity

MembersRead(cid) ==
    SelectSeq([k \in 1..t_read |-> k],
              LAMBDA k : t_lines[k].kind = "item" /\ t_lines[k].out.cluster_id_coarse = cid)

FirstOf(seq, n) == SubSeq(seq, 1, IF Len(seq) < n THEN Len(seq) ELSE n)

C28_SampleIsFirstTenMembers ==
    \A cid \in ClusterIds :
        /\ t_clusters[cid].count = Len(MembersRead(cid))
        /\ Len(t_clusters[cid].sample_ids) <= 10
        /\ t_clusters[cid].sample_ids = FirstOf(MembersRead(cid), 10)

C28_Witness ==
    \E cid \in ClusterIds, other \in ClusterIds :
        /\ t_clusters[cid].count = 11
        /\ Len(t_clusters[cid].sample_ids) = 10
        /\ t_clusters[cid].sample_ids[1] = 2
        /\ t_clusters[other].count = 1
        /\ t_clusters[other].sample_ids = <<1>>

\* C29: the display label of a cluster is the display key most of its members
\* carry, the first seen in the stream among the keys that tie; the display
\* key of an item has no part in the cluster the item is counted in.
DisplayKeys == {NoText, KeyA, KeyB}

KeyOfLine(k) == t_lines[k].out.cluster_key_llm

KeysOf(cid) == {KeyOfLine(k) : k \in Members(cid)} \ {NoText}

KeyCount(cid, key) == Cardinality({k \in Members(cid) : KeyOfLine(k) = key})

FirstSeen(cid, key) ==
    CHOOSE k \in Members(cid) :
        /\ KeyOfLine(k) = key
        /\ \A j \in Members(cid) : j < k => KeyOfLine(j) # key

ClusterWithKey(k, key) ==
    process_item([t_lines[k].fields EXCEPT !.cluster_key = key], t_script).cluster_id_coarse

C29_LabelIsMajorityKeyFirstSeen ==
    /\ \A k \in 1..Len(t_lines) :
           t_lines[k].kind = "item" =>
               \A key \in DisplayKeys :
                   ClusterWithKey(k, key) = t_lines[k].out.cluster_id_coarse
    /\ \A cid \in ClusterIds :
           t_clusters[cid].count = Cardinality({k \in Members(cid) : k <= t_read})
    /\ t_report.done =>
           \A cid \in ClusterIds :
               KeysOf(cid) # {} =>
                   LET label == t_report.clusters[cid].display_label.key
                   IN  /\ label \in KeysOf(cid)
                       /\ \A key \in KeysOf(cid) \ {label} :
                              \/ KeyCount(cid, key) < KeyCount(cid, label)
                              \/ /\ KeyCount(cid, key) = KeyCount(cid, label)
                                 /\ FirstSeen(cid, label) < FirstSeen(cid, key)

C29_Witness ==
    /\ t_report.done
    /\ \E cid \in ClusterIds :
           /\ KeysOf(cid) = {KeyA, KeyB}
           /\ KeyCount(cid, KeyA) = KeyCount(cid, KeyB)
           /\ FirstSeen(cid, KeyB) < FirstSeen(cid, KeyA)
           /\ t_report.clusters[cid].display_label.key = KeyB
           /\ \E k \in Members(cid) : KeyOfLine(k) = NoText

\* C31: every output of the aggregator is computed from the one pass over the
\* stream, and with --max-items N no item after the first N parsed items has
\* any influence on an output: the outputs are those of the file cut after
\* its N-th parsed item.
RECURSIVE ParsedUpTo(_, _)
ParsedUpTo(lines, n) ==
    IF n = 0 THEN 0
    ELSE ParsedUpTo(lines, n - 1) + (IF lines[n].kind # "bad" THEN 1 ELSE 0)

BoundedPrefix(lines, max_items) ==
    IF max_items = 0 \/ ParsedUpTo(lines, Len(lines)) <= max_items THEN lines
    ELSE SubSeq(lines, 1,
                CHOOSE n \in 1..Len(lines) :
                    lines[n].kind # "bad" /\ ParsedUpTo(lines, n) = max_items)

RECURSIVE ClustersAfter(_, _, _)
ClustersAfter(scr, lines, n) ==
    IF n = 0 THEN <<>>
    ELSE LET before == ClustersAfter(scr, lines, n - 1)
             item == lines[n]
         IN  IF item.kind # "item" THEN before
             ELSE LET cid == item.out.cluster_id_coarse
                      c == IF cid \in DOMAIN before THEN before[cid] ELSE NewCluster
                  IN  [x \in DOMAIN before \cup {cid} |->
                          IF x = cid THEN UpdateCluster(scr, c, item, n) ELSE before[x]]

OutputsOf(scr, lines) ==
    LET clusters == ClustersAfter(scr, lines, Len(lines))
    IN  [ done |-> TRUE,
          clusters |-> [cid \in DOMAIN clusters |->
              [ display_label |-> DisplayLabel(scr, clusters[cid]),
                severity |-> ReportedSeverity(scr, clusters[cid]) ]],
          total_items |-> ParsedUpTo(lines, Len(lines)),
          sample |-> ActionableSample(scr, lines) ]

C31_OutputsFromBoundedPrefix ==
    t_report.done => t_report = OutputsOf(t_script, BoundedPrefix(t_lines, t_max))

\* The cluster statistics and the item total are those of the bounded prefix.
ClusterOutputsFromBoundedPrefix ==
    t_report.done =>
        LET outputs == OutputsOf(t_script, BoundedPrefix(t_lines, t_max))
        IN  /\ t_report.clusters = outputs.clusters
            /\ t_report.total_items = outputs.total_items
            /\ t_script = "v2" => t_report.sample = outputs.sample

\* An actionable item after the first --max-items items is in the sample.
SampleBeyondBound ==
    /\ t_report.done /\ t_script = "final" /\ t_max = 1 /\ Len(t_lines) = 2
    /\ t_lines[1].kind = "item" /\ ~t_lines[1].is_actionable
    /\ t_report.sample = <<2>>

\* The counts of the first n keys of a Counter, added up.
RECURSIVE SumOfCounts(_, _)
SumOfCounts(distribution, n) ==
    IF n = 0 THEN 0 ELSE SumOfCounts(distribution, n - 1) + distribution[n].n

\* C39: at every point of the aggregation pass the member counts of the
\* coarse clusters add up to what the counts of the brands add up to, the
\* number of items read so far that carry a cluster id; the actionable count
\* of a cluster and of a brand is at most its count; and the counts of the
\* fine sub-clusters of a coarse cluster add up to its member count.
RECURSIVE CountsOver(_, _)
CountsOver(stats, keys) ==
    IF keys = {} THEN 0
    ELSE LET key == CHOOSE x \in keys : TRUE
         IN  stats[key].count + CountsOver(stats, keys \ {key})

ClusteredRead == {k \in 1..t_read : t_lines[k].kind = "item"}

C39_AccumulatorsConserved ==
    /\ CountsOver(t_clusters, ClusterIds) = Cardinality(ClusteredRead)
    /\ CountsOver(t_brands, DOMAIN t_brands) = Cardinality(ClusteredRead)
    /\ \A cid \in ClusterIds :
           /\ t_clusters[cid].actionable <= t_clusters[cid].count
           /\ t_script = "v2" =>
                  SumOfCounts(t_clusters[cid].fine_clusters,
                              Len(t_clusters[cid].fine_clusters)) = t_clusters[cid].count
    /\ \A brand \in DOMAIN t_brands :
           t_brands[brand].actionable <= t_brands[brand].count

C39_Witness ==
    /\ t_script = "v2" /\ t_read = 4 /\ t_total = 4
    /\ t_lines[1].kind = "unclustered"
    /\ Cardinality(ClusterIds) = 2 /\ Cardinality(DOMAIN t_brands) = 2
    /\ \E cid \in ClusterIds :
           /\ t_clusters[cid].count = 2 /\ t_clusters[cid].actionable = 1
           /\ Len(t_clusters[cid].fine_clusters) = 2

\* ------------------------------------------------------------- claims on the cluster-size statistics
\* C30: every cluster is counted in exactly one of the six buckets, the one of
\* its member count (1; 2 to 5; 6 to 10; 11 to 50; 51 to 100; more than 100);
\* the bucket counts sum to the number of clusters; the singleton rate is the
\* number of clusters of one member divided by the number of clusters.
SizeBuckets ==
    { [name |-> "1", lo |-> 1, hi |-> 1], [name |-> "2-5", lo |-> 2, hi |-> 5],
      [name |-> "6-10", lo |-> 6, hi |-> 10], [name |-> "11-50", lo |-> 11, hi |-> 50],
      [name |-> "51-100", lo |-> 51, hi |-> 100], [name |-> "100+", lo |-> 101, hi |-> 0] }

InBucket(b, size) == b.lo <= size /\ (b.hi = 0 \/ size <= b.hi)

Counted(distribution, name) ==
    IF \E i \in 1..Len(distribution) : distribution[i].key = name
    THEN distribution[CHOOSE i \in 1..Len(distribution) : distribution[i].key = name].n
    ELSE 0

Distance(a, b) == IF a < b THEN b - a ELSE a - b

C30_HistogramPartitionsClusters ==
    h_out.done =>
        /\ \A i \in 1..Len(h_sizes) :
               Cardinality({b \in SizeBuckets : InBucket(b, h_sizes[i])}) = 1
        /\ \A i \in 1..Len(h_out.distribution) :
               \E b \in SizeBuckets : b.name = h_out.distribution[i].key
        /\ \A i, j \in 1..Len(h_out.distribution) :
               h_out.distribution[i].key = h_out.distribution[j].key => i = j
        /\ \A b \in SizeBuckets :
               Counted(h_out.distribution, b.name)
                   = Cardinality({i \in 1..Len(h_sizes) : InBucket(b, h_sizes[i])})
        /\ SumOfCounts(h_out.distribution, Len(h_out.distribution)) = Len(h_sizes)
        /\ h_out.singleton = Cardinality({i \in 1..Len(h_sizes) : h_sizes[i] = 1})
        /\ Len(h_sizes) > 0 =>
               2 * Distance(h_out.singleton_pct * Len(h_sizes), 100 * 100 * h_out.singleton)
                   <= Len(h_sizes)

C30_Witness ==
    /\ h_out.done
    /\ h_sizes = <<101, 1, 5>>
    /\ h_out.distribution = <<[key |-> "100+", n |-> 1], [key |-> "1", n |-> 1],
                              [key |-> "2-5", n |-> 1]>>
    /\ h_out.singleton_pct = 3333

====
